---- MODULE Spec2Model ----
(***************************************************************************)
(* Model of the rescue-robot dialogue controller (gonxalor/docker_vm):     *)
(* the PhaseController two-phase workflow, the extraction agents           *)
(* (AssessmentAgent, ComfortAssessmentAgent), the ActionAgent and the      *)
(* hand-off queue towards the backup interaction.                          *)
(*                                                                         *)
(* Text.  A Python str is modelled as a finite sequence over the alphabet  *)
(* Symbols.  Every symbol stands for a fixed run of characters (a word, a  *)
(* blank, a dash); strip, lower, "in", startswith and replace are defined  *)
(* on these sequences exactly as Python defines them on sequences of       *)
(* characters.  Enumerated fields of a decision (primary_action,           *)
(* urgency_level) are only ever compared for equality by the code and are  *)
(* modelled as atoms.                                                      *)
(*                                                                         *)
(* LLM.  Every LLM call is a nondeterministic choice of a transport        *)
(* outcome and, on success, of the JSON object found in the reply.  The    *)
(* objects carry values of the types of the data model (text fields hold   *)
(* strings, alert_command_center holds a boolean).                         *)
(***************************************************************************)
EXTENDS Integers, Sequences, FiniteSets, TLC

(***************************************************************************)
(* Bounds                                                                  *)
(***************************************************************************)
MaxPhase1Turns == 3
MaxPhase2Turns == 2
MaxUpdates == 3

(***************************************************************************)
(* Python str operations on symbol sequences                               *)
(***************************************************************************)
Whitespace == {"sp"}

\* str.lower() on one symbol: the upper-case spellings map to the lower-case ones
LowerSym(c) ==
    CASE c = "UNKNOWN"  -> "unknown"
      [] c = "YES"      -> "yes"
      [] c = "UNSTABLE" -> "unstable"
      [] c = "Red"      -> "red"
      [] c = "Yellow"   -> "yellow"
      [] c = "Green"    -> "green"
      [] c = "GREEN"    -> "green"
      [] c = "Black"    -> "black"
      [] OTHER          -> c

Lower(s) == [i \in DOMAIN s |-> LowerSym(s[i])]

\* str.strip(): drop leading and trailing whitespace
Strip(s) ==
    LET keep == {i \in DOMAIN s : s[i] \notin Whitespace}
    IN  IF keep = {} THEN <<>>
        ELSE LET lo == CHOOSE i \in keep : \A j \in keep : i <= j
                 hi == CHOOSE i \in keep : \A j \in keep : j <= i
             IN  SubSeq(s, lo, hi)

\* sub in s
Contains(sub, s) ==
    \E i \in 0..(Len(s) - Len(sub)) : SubSeq(s, i + 1, i + Len(sub)) = sub

\* s.startswith(p)
StartsWith(s, p) == Len(p) <= Len(s) /\ SubSeq(s, 1, Len(p)) = p

\* s.replace(old, new), old non-empty: leftmost non-overlapping occurrences
RECURSIVE Replace(_, _, _)
Replace(s, old, new) ==
    IF Len(s) < Len(old) THEN s
    ELSE IF SubSeq(s, 1, Len(old)) = old
         THEN new \o Replace(SubSeq(s, Len(old) + 1, Len(s)), old, new)
         ELSE <<s[1]>> \o Replace(Tail(s), old, new)

UNKNOWN == <<"unknown">>
YesDash == <<"yes", "sp", "dash", "sp">>
NoDash  == <<"no", "sp", "dash", "sp">>
Sep     == <<"semicolon", "sp">>

(***************************************************************************)
(* AssessmentAgent: the Phase 1 record                                     *)
(***************************************************************************)
AssessmentFields ==
    {"injuries", "people_in_surroundings", "can_walk", "stuck_trapped",
     "breathing", "consciousness", "immediate_danger"}

InitialAssessment ==
    [f \in AssessmentFields |->
        IF f = "consciousness" THEN <<"Conscious">> ELSE UNKNOWN]

assessment_priority ==
    <<"injuries", "breathing", "immediate_danger", "stuck_trapped",
      "can_walk", "people_in_surroundings">>

\* AssessmentAgent._validate_updates; cur is self.assessment, o the parsed object
InvalidValue(v) ==
    v = <<>> \/ Strip(v) = <<>> \/ Lower(v) = UNKNOWN

ValidateKeeps(cur, o, f) ==
    /\ f \in DOMAIN cur
    /\ ~InvalidValue(o[f])
    /\ cur[f] # o[f]

_validate_updates(cur, o) ==
    [f \in {g \in DOMAIN o : ValidateKeeps(cur, o, g)} |-> Strip(o[f])]

\* AssessmentAgent._is_duplicate_info
_is_duplicate_info(existing, new) ==
    LET existing_lower == Lower(existing)
        new_lower == Replace(Replace(Lower(new), YesDash, <<>>), NoDash, <<>>)
    IN  Contains(new_lower, existing_lower) \/ Contains(existing_lower, new_lower)

\* the per-key branch of AssessmentAgent.update_assessment: the new text of key
MergeValue(key, current_value, value) ==
    IF current_value = UNKNOWN THEN value
    ELSE IF value # current_value
         THEN IF key = "injuries" /\ StartsWith(current_value, <<"yes">>)
              THEN IF ~_is_duplicate_info(current_value, value)
                   THEN current_value \o Sep \o Replace(value, YesDash, <<>>)
                   ELSE current_value
              ELSE value
         ELSE current_value

StuckInference_always(rec, u) ==
    /\ "stuck_trapped" \in DOMAIN u
    /\ Contains(<<"yes">>, Lower(u["stuck_trapped"]))

\* AssessmentAgent.update_assessment: the record after merging updates u
StuckInference(rec, u) ==
    /\ "stuck_trapped" \in DOMAIN u
    /\ Contains(<<"yes">>, Lower(u["stuck_trapped"]))
    /\ rec["can_walk"] = UNKNOWN

update_assessment(cur, u) ==
    LET merged == [f \in DOMAIN cur |->
                      IF f \in DOMAIN u THEN MergeValue(f, cur[f], u[f]) ELSE cur[f]]
    IN  IF StuckInference(merged, u)
        THEN [merged EXCEPT !["can_walk"] =
                 <<"No", "sp", "dash", "sp", "victim", "sp", "is", "sp", "stuck">>]
        ELSE merged

update_assessed_keys(cur, cats, u) == cats \cup (DOMAIN u \cap DOMAIN cur)

\* the assessed set after the same call
update_assessed(cur, cats, u) ==
    LET merged == [f \in DOMAIN cur |->
                      IF f \in DOMAIN u THEN MergeValue(f, cur[f], u[f]) ELSE cur[f]]
    IN  cats \cup (DOMAIN u \cap DOMAIN cur)
             \cup (IF StuckInference(merged, u) THEN {"can_walk"} ELSE {})

\* AssessmentAgent.is_assessment_complete / get_next_priority_field
is_assessment_complete(cats) ==
    \A i \in DOMAIN assessment_priority : assessment_priority[i] \in cats

get_next_priority_field(cats) ==
    LET open == {i \in DOMAIN assessment_priority : assessment_priority[i] \notin cats}
    IN  IF open = {} THEN ""
        ELSE assessment_priority[CHOOSE i \in open : \A j \in open : i <= j]

(***************************************************************************)
(* LLM transport outcomes (requests.post) and agent results                *)
(***************************************************************************)
\* "ok": HTTP 200 with a body; "http_error": a non-success status;
\* "timeout", "connection_error": the exceptions requests raises
Outcomes == {"ok", "http_error", "timeout", "connection_error"}

EmptyMap == [f \in {} |-> <<>>]

\* an agent result: the distinguished failure value False, or a mapping
Failure == [failed |-> TRUE, map |-> EmptyMap]
Mapping(m) == [failed |-> FALSE, map |-> m]

\* the reply of an extraction LLM: json says whether a JSON object can be
\* extracted from the text, obj is that object (field -> text)
NoJson == [json |-> FALSE, obj |-> EmptyMap]
Json(o) == [json |-> TRUE, obj |-> o]

\* AssessmentAgent._extract_json: the parsed object, {} when nothing parses
_extract_json(reply) == IF reply.json THEN reply.obj ELSE EmptyMap

\* AssessmentAgent.analyze_victim_response
analyze_victim_response(cur, outcome, reply) ==
    IF outcome = "ok" THEN Mapping(_validate_updates(cur, _extract_json(reply)))
    ELSE IF outcome = "http_error" THEN Mapping(EmptyMap)
    ELSE Failure

(***************************************************************************)
(* ComfortAssessmentAgent: the Phase 2 record                              *)
(***************************************************************************)
SpecialNeedsFields ==
    {"emergency_medication", "regular_medication", "allergies",
     "medical_conditions", "age", "elderly", "pregnant",
     "mobility_impairment", "mental_health_conditions"}

InitialSpecialNeeds == [f \in SpecialNeedsFields |-> UNKNOWN]

priority_fields ==
    <<"emergency_medication", "medical_conditions", "allergies",
      "regular_medication", "age", "elderly", "mobility_impairment",
      "pregnant", "mental_health_conditions">>

\* ComfortAssessmentAgent._extract_json: the first JSON object of the text,
\* filtered to the known fields
comfort_extract_json(reply) ==
    IF reply.json
    THEN [f \in DOMAIN reply.obj \cap SpecialNeedsFields |-> reply.obj[f]]
    ELSE EmptyMap

\* ComfortAssessmentAgent.analyze_victim_response: the returned mapping ...
comfort_analyze_victim_response(outcome, reply) ==
    IF outcome = "ok" THEN Mapping(comfort_extract_json(reply))
    ELSE Mapping(EmptyMap)

\* ... and the assessed set it leaves behind
comfort_analyze_assessed(fields, outcome, reply) ==
    IF outcome = "ok"
    THEN fields \cup (DOMAIN comfort_extract_json(reply) \cap SpecialNeedsFields)
    ELSE fields

\* ComfortAssessmentAgent.update_special_needs
update_special_needs(cur, u) ==
    [f \in DOMAIN cur |->
        IF f \in DOMAIN u /\ u[f] # <<>> /\ u[f] # UNKNOWN
        THEN IF cur[f] # UNKNOWN /\ cur[f] # u[f]
             THEN cur[f] \o Sep \o u[f]
             ELSE u[f]
        ELSE cur[f]]

\* ComfortAssessmentAgent.is_assessment_complete / get_next_priority_field
comfort_is_assessment_complete(fields) ==
    Cardinality({i \in 1..5 : priority_fields[i] \in fields}) >= 4

comfort_get_next_priority_field(needs, fields) ==
    LET open == {i \in DOMAIN priority_fields :
                    priority_fields[i] \notin fields /\ needs[priority_fields[i]] = UNKNOWN}
    IN  IF open = {} THEN ""
        ELSE priority_fields[CHOOSE i \in open : \A j \in open : i <= j]

(***************************************************************************)
(* ActionAgent                                                             *)
(***************************************************************************)
\* A key of the object the LLM returned: present or not, and its value
Absent(v) == [present |-> FALSE, value |-> v]
Present(v) == [present |-> TRUE, value |-> v]

Get_default(o, key, default) == default

\* dict.get(key, default)
Get(o, key, default) == IF o[key].present THEN o[key].value ELSE default

NoList == <<>>

\* ActionAgent._get_default_decision
_get_default_decision ==
    [primary_action |-> "continue_conversation",
     alert_command_center |-> FALSE,
     urgency_level |-> "routine",
     reasoning |-> "Default action due to decision system error - continuing safely",
     next_phase |-> 0,
     specialized_equipment_needed |-> NoList,
     send_message_to_cc |-> FALSE,
     action |-> "Continue gathering information"]

\* the action_map lookup of ActionAgent._normalize_action_decision
action_map(primary_action) ==
    CASE primary_action = "continue_conversation" -> "Continue gathering information"
      [] primary_action = "transition_to_phase_2" -> "Transition to Phase 2 (Comfort & Special Needs)"
      [] primary_action = "evacuate_immediately" -> "Guide victim to evacuation immediately"
      [] primary_action = "abort_and_alert" -> "Abort and alert command center for specialized rescue"
      [] primary_action = "complete" -> "Assessment complete - await further instructions"
      [] primary_action = "maintain_and_monitor" -> "Maintain position and monitor victim"
      [] OTHER -> primary_action

\* ActionAgent._normalize_action_decision
_normalize_action_decision(raw) ==
    LET pa == Get(raw, "primary_action", "continue_conversation")
        alert == Get(raw, "alert_command_center", FALSE)
    IN  [primary_action |-> pa,
         alert_command_center |-> alert,
         urgency_level |-> Get(raw, "urgency_level", "routine"),
         reasoning |-> Get(raw, "reasoning", ""),
         next_phase |-> Get(raw, "next_phase", 0),
         specialized_equipment_needed |-> Get(raw, "specialized_equipment_needed", NoList),
         send_message_to_cc |-> alert,
         action |-> action_map(pa)]

\* ActionAgent._parse_action_json: TRUE when a dict with one of the required
\* keys was parsed (the method then returns the dict), FALSE when it returns None
_parse_action_json(reply) ==
    reply.json /\ (reply.obj["primary_action"].present \/ reply.obj["action"].present)

\* an ActionAgent result: False, or a decision
NoDecision == [failed |-> TRUE, decision |-> _get_default_decision]
Decision(d) == [failed |-> FALSE, decision |-> d]

decide_next_action_strict(outcome, reply) ==
    IF outcome = "ok" /\ _parse_action_json(reply)
    THEN Decision(_normalize_action_decision(reply.obj))
    ELSE NoDecision

\* ActionAgent.decide_next_action
decide_next_action(outcome, reply) ==
    IF outcome = "ok"
    THEN IF _parse_action_json(reply)
         THEN Decision(_normalize_action_decision(reply.obj))
         ELSE Decision(_get_default_decision)
    ELSE NoDecision

(***************************************************************************)
(* PhaseController: decision handlers                                      *)
(***************************************************************************)
\* ActionDecision.should_* / is_emergency
should_continue_phase(d)     == d.primary_action = "continue_conversation"
should_transition_phase_2(d) == d.primary_action = "transition_to_phase_2"
should_evacuate(d)           == d.primary_action = "evacuate_immediately"
should_abort(d)              == d.primary_action = "abort_and_alert"
should_complete(d)           == d.primary_action = "complete"

is_emergency_only(d) == d.urgency_level = "emergency"

is_emergency(d) == d.urgency_level \in {"critical", "emergency"}

\* the keyword list of _handle_phase_1_action_decision
ActiveDangerKeywords ==
    {<<"fire">>, <<"burning">>, <<"collapsing">>, <<"collapse", "sp", "now">>,
     <<"smoke", "sp", "filling">>, <<"gas", "sp", "leak">>, <<"flooding">>,
     <<"rising", "sp", "water">>, <<"electrical">>, <<"sparks">>}

is_active_danger_exact(immediate_danger) ==
    Lower(immediate_danger) \in ActiveDangerKeywords

is_active_danger(immediate_danger) ==
    \E keyword \in ActiveDangerKeywords : Contains(keyword, Lower(immediate_danger))

\* a handler result; next_phase is a key that may be missing, 0 stands for None
Exit(reason, next) == [should_exit |-> TRUE, exit_reason |-> reason, next_phase |-> next]
Continue == [should_exit |-> FALSE, exit_reason |-> "None", next_phase |-> Absent(0)]

mobility_known(rec) == rec["can_walk"] # UNKNOWN \/ rec["stuck_trapped"] # UNKNOWN

min_turns_met_early(turns) == turns >= 2

min_turns_met(turns) == turns >= 3

\* PhaseController._handle_phase_1_action_decision
_handle_phase_1_action_decision(d, rec, turns) ==
    IF should_abort(d)
    THEN IF ~is_active_danger(rec["immediate_danger"])
            /\ Contains(<<"unstable">>, Lower(rec["immediate_danger"]))
         THEN Exit("transition_to_phase_2", Present(2))
         ELSE Exit("abort_and_alert", Present(0))
    ELSE IF should_evacuate(d)
    THEN Exit("immediate_evacuation", Present(0))
    ELSE IF should_transition_phase_2(d)
    THEN IF ~mobility_known(rec) \/ ~min_turns_met(turns)
         THEN Continue
         ELSE Exit("transition_to_phase_2", Present(2))
    ELSE Continue

_handle_phase_2_fail_closed(d) ==
    IF should_abort(d) \/ is_emergency(d)
    THEN Exit("emergency_detected", Absent(0))
    ELSE IF should_evacuate(d)
    THEN Exit("evacuation_ready", Absent(0))
    ELSE IF should_complete(d)
    THEN Exit("phase_2_complete", Absent(0))
    ELSE IF should_continue_phase(d) \/ should_transition_phase_2(d)
    THEN Continue
    ELSE Exit("emergency_detected", Absent(0))

\* PhaseController._handle_phase_2_action_decision
_handle_phase_2_action_decision(d) ==
    IF should_abort(d) \/ is_emergency(d)
    THEN Exit("emergency_detected", Absent(0))
    ELSE IF should_evacuate(d)
    THEN Exit("evacuation_ready", Absent(0))
    ELSE IF should_complete(d)
    THEN Exit("phase_2_complete", Absent(0))
    ELSE Continue

_is_assessment_sufficient_any(prior) ==
    \E f \in {"injuries", "breathing", "can_walk", "immediate_danger", "consciousness"} :
        prior[f] # UNKNOWN

\* PhaseController._is_assessment_sufficient (entry point)
_is_assessment_sufficient(prior) ==
    \A f \in {"injuries", "breathing", "can_walk", "immediate_danger", "consciousness"} :
        prior[f] # UNKNOWN

(***************************************************************************)
(* Inputs: what the victim says and what the LLM replies                   *)
(***************************************************************************)
Utterances == {<<"yes">>, <<"no">>}

NoResponse == <<>>

\* objects the Phase 1 extraction LLM may return
P1Objects ==
    { [injuries |-> <<"yes", "sp", "dash", "sp", "leg">>, breathing |-> <<"yes">>],
      [injuries |-> <<"arm">>, immediate_danger |-> <<"UNSTABLE", "sp", "fire">>],
      [breathing |-> <<"unknown", "sp">>, injuries |-> <<"UNKNOWN">>,
       can_walk |-> <<>>, people_in_surroundings |-> <<"sp">>],
      [immediate_danger |-> <<"seems", "sp", "unstable">>, stuck_trapped |-> <<"YES">>],
      [injuries |-> <<"no">>, breathing |-> <<"yes">>,
       immediate_danger |-> <<"gas", "sp", "leak">>,
       stuck_trapped |-> <<"no">>, can_walk |-> <<"yes">>,
       people_in_surroundings |-> <<"no">>, mood |-> <<"calm">>] }

P1Replies == {NoJson} \cup {Json(o) : o \in P1Objects}

\* objects the Phase 2 extraction LLM may return
P2Objects ==
    { [allergies |-> <<"penicillin">>],
      [allergies |-> <<"unknown">>, age |-> <<"UNKNOWN">>, mood |-> <<"calm">>],
      [emergency_medication |-> <<"insulin">>, medical_conditions |-> <<"diabetes">>,
       allergies |-> <<"latex">>, regular_medication |-> <<>>] }

P2Replies == {NoJson} \cup {Json(o) : o \in P2Objects}

\* objects the Action LLM may return
PrimaryActions ==
    {"continue_conversation", "transition_to_phase_2", "evacuate_immediately",
     "abort_and_alert", "complete", "maintain_and_monitor", "wait_for_help"}

UrgencyLevels == {"routine", "priority", "critical", "emergency"}

ActionObject(pa, act, alert, urgency, rest) ==
    [primary_action |-> pa,
     action |-> act,
     alert_command_center |-> alert,
     urgency_level |-> urgency,
     reasoning |-> IF rest THEN Present("victim is stable") ELSE Absent(""),
     next_phase |-> IF rest THEN Present(2) ELSE Absent(0),
     specialized_equipment_needed |-> IF rest THEN Present(<<"jack">>) ELSE Absent(NoList)]

ActionObjects ==
    { ActionObject(pa, act, alert, urgency, rest) :
        pa \in {Absent("")} \cup {Present(a) : a \in PrimaryActions},
        act \in {Absent(""), Present("Maintain safety and observe")},
        alert \in {Absent(FALSE), Present(TRUE), Present(FALSE)},
        urgency \in {Absent("")} \cup {Present(u) : u \in UrgencyLevels},
        rest \in BOOLEAN }

NoActionJson == [json |-> FALSE, obj |-> ActionObject(Absent(""), Absent(""), Absent(FALSE), Absent(""), FALSE)]

ActionReplies == {NoActionJson} \cup {[json |-> TRUE, obj |-> o] : o \in ActionObjects}

\* replies of the dialogue LLM: a question, or nothing left after cleaning
DialogueReplies == {"question", "empty"}

\* a prior assessment handed to execute_full_workflow, or none
SufficientPrior ==
    [f \in AssessmentFields |->
        CASE f = "injuries" -> <<"yes", "sp", "dash", "sp", "leg">>
          [] f = "breathing" -> <<"yes">>
          [] f = "can_walk" -> <<"no">>
          [] f = "immediate_danger" -> <<"seems", "sp", "unstable">>
          [] f = "consciousness" -> <<"Conscious">>
          [] OTHER -> UNKNOWN]

PartialPrior == [SufficientPrior EXCEPT !["can_walk"] = UNKNOWN]

PriorAssessments == {SufficientPrior, PartialPrior}

\* the Action LLM replies explored inside the workflow: every primary action
\* with every urgency level and alert flag, an object without primary_action,
\* and a reply without JSON
WorkflowActionReplies ==
    {NoActionJson}
    \cup {[json |-> TRUE,
           obj |-> ActionObject(Present(pa), Absent(""), Present(alert), Present(u), FALSE)] :
             pa \in PrimaryActions, alert \in BOOLEAN, u \in UrgencyLevels}
    \cup {[json |-> TRUE,
           obj |-> ActionObject(Absent(""), Absent(""), Present(TRUE), Present("critical"), FALSE)]}

(***************************************************************************)
(* BackupInteraction: the record and the tree                              *)
(***************************************************************************)
\* Python's None in victim_situation; no text is this symbol
None == <<"None">>

BackupFields ==
    {"injuries", "people_in_surroundings", "robot_action", "can_walk",
     "breathing", "consciousness", "stuck_trapped", "immediate_danger", "priority"}

\* BackupInteraction.__init__: victim_situation
InitialVictimSituation ==
    [f \in BackupFields |-> IF f = "priority" THEN <<"Yellow">> ELSE None]

\* BackupInteraction.__init__: question_to_field, the nodes of each field
question_to_field(field) ==
    CASE field = "consciousness" -> {0}
      [] field = "injuries" -> {1}
      [] field = "breathing" -> {2}
      [] field = "stuck_trapped" -> {3}
      [] field = "immediate_danger" -> {5}
      [] field = "can_walk" -> {4}
      [] field = "people_in_surroundings" -> {6}
      [] field = "robot_action" -> {7, 8}

\* what the controller did in the current turn: listening attempts and retry
\* prompts of the _get_victim_response call (until its reply is handed to the
\* extraction agent), decisions appended to the audit trail with
\* alert_command_center true, and calls of _alert_command_center
NoTurnLog == [listens |-> 0, retry_prompts |-> 0, alert_decisions |-> 0, alerts |-> 0]

(***************************************************************************)
(* State                                                                   *)
(***************************************************************************)
VARIABLES
    pc,                  \* position of the primary pipeline
    current_phase,       \* PhaseController.current_phase, 0 for None
    phase_1_turns, phase_2_turns, turn_count,
    victim_response,     \* the reply of the current turn
    assessment,          \* AssessmentAgent.assessment
    assessed_categories, \* AssessmentAgent.assessed_categories
    special_needs,       \* ComfortAssessmentAgent.special_needs
    assessed_fields,     \* ComfortAssessmentAgent.assessed_fields
    updates,             \* result of the extraction agent in this turn
    raw_decision,        \* result of ActionAgent.decide_next_action in this turn
    handler_result,      \* result of the decision handler in this turn
    phase_result,        \* what the phase returned: exit_reason, next_phase
    results,             \* execute_full_workflow: the result object
    report_queue,        \* the hand-off queue to the backup
    event,               \* the cancellation flag
    call,                \* the last LLM call: agent, outcome, reply, signal
    action_reply,        \* the reply of the Action LLM in the last call
    triage,              \* TriageAgent: runs of the final triage, LLM calls, last reply
    turn_log,            \* listens, retry prompts, alert decisions and alerts of the turn
    backup_pc,           \* position of the backup task
    victim_situation,    \* BackupInteraction.victim_situation
    occupied_nodes,      \* BackupInteraction.occupied_nodes
    in_background,       \* BackupInteraction.in_background
    first_message,       \* BackupInteraction.first_message
    stt_queue,           \* BackupInteraction.stt_queue
    stt_discarded,       \* victim messages on_stt_message dropped
    node, last_answer, mobility,  \* locals of interaction_tree
    handed_off,          \* the fields the record held when the failure message was dequeued
    asked,               \* the nodes interact was called on, in order
    reports,             \* the data of the status publications, in order
    spoken,              \* number of utterances of the backup
    controller_stt_queue \* PhaseController.stt_queue: messages, each with the
                         \* number of turns the robot had spoken on its arrival

vars == <<pc, current_phase, phase_1_turns, phase_2_turns, turn_count,
          victim_response, assessment, assessed_categories, special_needs,
          assessed_fields, updates, raw_decision, handler_result, phase_result,
          results, report_queue, event, call, action_reply, triage, turn_log,
          backup_pc, victim_situation, occupied_nodes, in_background,
          first_message, stt_queue, stt_discarded, node, last_answer, mobility,
          handed_off, asked, reports, spoken, controller_stt_queue>>

agents == <<assessment, assessed_categories, special_needs, assessed_fields>>
counters == <<current_phase, phase_1_turns, phase_2_turns, turn_count>>
handoff == <<report_queue, event>>
locals == <<victim_response, updates, raw_decision, handler_result>>
backup_vars == <<backup_pc, victim_situation, occupied_nodes, in_background,
                 first_message, stt_queue, stt_discarded, node, last_answer,
                 mobility, handed_off, asked, reports, spoken>>

\* BackupInteraction.__init__ and the defaults of interaction_tree
BackupInit ==
    /\ backup_pc = "standby"
    /\ victim_situation = InitialVictimSituation
    /\ occupied_nodes = {}
    /\ in_background = TRUE
    /\ first_message = TRUE
    /\ stt_queue = <<>>
    /\ stt_discarded = 0
    /\ node = -1
    /\ last_answer = "positive"
    /\ mobility = "None"
    /\ handed_off = {}
    /\ asked = <<>>
    /\ reports = <<>>
    /\ spoken = 0

\* no triage has run, no triage LLM call was made
NoTriage == [runs |-> 0, calls |-> 0, reply |-> <<>>]

NoCall == [agent |-> "none", outcome |-> "ok", failed |-> FALSE]
Call(agent, outcome, failed) == [agent |-> agent, outcome |-> outcome, failed |-> failed]

NoPhaseResult == [exit_reason |-> "", next_phase |-> 0]
PhaseResult(reason, next) == [exit_reason |-> reason, next_phase |-> next]

InitialResults ==
    [entry_phase |-> 0, phase_1_executed |-> FALSE, phase_2_executed |-> FALSE,
     triage_priority |-> <<>>, rescue_report |-> <<>>, exit_reason |-> "",
     returned |-> "running"]

\* messages of the hand-off queue
Snapshot(m) == [info |-> "snapshot", data |-> m]
FailMessage(response) == [info |-> "fail", data |-> response]

Init ==
    /\ pc = "start"
    /\ current_phase = 0
    /\ phase_1_turns = 0 /\ phase_2_turns = 0 /\ turn_count = 0
    /\ victim_response = NoResponse
    /\ assessment = InitialAssessment
    /\ assessed_categories = {}
    /\ special_needs = InitialSpecialNeeds
    /\ assessed_fields = {}
    /\ updates = Mapping(EmptyMap)
    /\ raw_decision = Decision(_get_default_decision)
    /\ handler_result = Continue
    /\ phase_result = NoPhaseResult
    /\ results = InitialResults
    /\ report_queue = <<>>
    /\ event = FALSE
    /\ call = NoCall
    /\ action_reply = NoActionJson
    /\ triage = NoTriage
    /\ turn_log = NoTurnLog
    /\ BackupInit
    /\ controller_stt_queue = <<>>

(***************************************************************************)
(* PhaseController: the workflow                                           *)
(***************************************************************************)
\* PhaseController.change_to_backup_system (the controller is built with a loop)
change_to_backup_system(response) ==
    /\ report_queue' = Append(report_queue, FailMessage(response))
    /\ event' = TRUE

\* execute_phase_1 returned "LLM FAIL": execute_full_workflow returns None, None
ReturnLLMFail ==
    /\ pc' = "returned"
    /\ results' = [results EXCEPT !.returned = "llm_fail"]

\* an exception left the phase: execute_full_workflow catches it and returns results
ReturnError ==
    /\ pc' = "returned"
    /\ results' = [results EXCEPT !.exit_reason = "ERROR", !.returned = "error"]

ResetLocals ==
    /\ victim_response' = NoResponse
    /\ updates' = Mapping(EmptyMap)
    /\ raw_decision' = Decision(_get_default_decision)
    /\ handler_result' = Continue
    /\ call' = NoCall
    /\ action_reply' = NoActionJson
    /\ turn_log' = NoTurnLog

\* the controller's tests for the failure value: "updates == False" in
\* _update_assessment and execute_phase_1, "raw_decision == False" in
\* _evaluate_action_decision; an empty mapping is not the failure value
updates_falsy(result) == result.failed \/ result.map = EmptyMap

updates_failed(result) == result.failed

decision_failed(result) == result.failed

\* the loop condition of execute_phase_1 and execute_phase_2
turns_left_inclusive(turns, max_turns) == turns <= max_turns

turns_left(turns, max_turns) == turns < max_turns

\* _get_victim_response in production mode: arrivals[i] is what the i-th
\* stt_queue.get(timeout=20) yields, NoResponse after a timeout or for an
\* empty message; attempt counts from 0 as range(max_retries) does
max_retries == 3

Arrivals == [1..max_retries -> Utterances \cup {NoResponse}]

retry_prompt_due_always(attempt) == TRUE

retry_prompt_due(attempt) == attempt < max_retries - 1

RECURSIVE listen_loop(_, _, _)
listen_loop(arrivals, attempt, heard) ==
    IF attempt >= max_retries THEN heard
    ELSE LET reply == arrivals[attempt + 1]
             listened == [heard EXCEPT !.response = reply, !.listens = @ + 1]
         IN  IF reply # NoResponse THEN listened
             ELSE listen_loop(arrivals, attempt + 1,
                     IF retry_prompt_due(attempt)
                     THEN [listened EXCEPT !.retry_prompts = @ + 1]
                     ELSE listened)

_get_victim_response(arrivals) ==
    listen_loop(arrivals, 0, [response |-> NoResponse, listens |-> 0, retry_prompts |-> 0])

\* _evaluate_action_decision appends the decision to action_decisions
audit_trail(log, d) ==
    IF d.alert_command_center THEN [log EXCEPT !.alert_decisions = @ + 1] ELSE log

\* PhaseController._alert_command_center
_alert_command_center(log) == [log EXCEPT !.alerts = @ + 1]

\* execute_full_workflow up to the first turn: the entry point
determine_entry_point(has_prior, prior) ==
    IF has_prior /\ _is_assessment_sufficient(prior) THEN 2 ELSE 1

StartWorkflow ==
    /\ pc = "start"
    /\ \E has_prior \in BOOLEAN, prior \in PriorAssessments :
         LET entry_phase == determine_entry_point(has_prior, prior)
         IN  /\ results' = [results EXCEPT !.entry_phase = entry_phase]
             /\ current_phase' = entry_phase
             /\ assessment' = IF entry_phase = 2 THEN prior ELSE assessment
             /\ pc' = IF entry_phase = 1 THEN "p1_turn" ELSE "p2_turn"
    /\ UNCHANGED <<phase_1_turns, phase_2_turns, turn_count, assessed_categories,
                   special_needs, assessed_fields, phase_result, handoff, locals,
                   call, action_reply>>
    /\ UNCHANGED triage
    /\ UNCHANGED <<turn_log, backup_vars, controller_stt_queue>>

(***************************************************************************)
(* execute_phase_1                                                         *)
(***************************************************************************)
\* head of the while loop: count the turn, speak, listen (_get_victim_response);
\* after the loop: max turns reached
Phase1Turn ==
    /\ pc = "p1_turn"
    /\ IF turns_left(phase_1_turns, MaxPhase1Turns)
       THEN /\ phase_1_turns' = phase_1_turns + 1
            /\ turn_count' = turn_count + 1
            /\ \E arrivals \in Arrivals :
                 LET heard == _get_victim_response(arrivals)
                 IN  /\ victim_response' = heard.response
                     /\ turn_log' = [NoTurnLog EXCEPT !.listens = heard.listens,
                                                      !.retry_prompts = heard.retry_prompts]
                     /\ IF heard.response = NoResponse
                        THEN /\ phase_result' = PhaseResult("no_victim_response", 2)
                             /\ pc' = "p1_return"
                        ELSE /\ phase_result' = phase_result
                             /\ pc' = "p1_extract"
       ELSE /\ phase_result' = PhaseResult("max_turns_reached", 2)
            /\ pc' = "p1_return"
            /\ turn_log' = NoTurnLog
            /\ UNCHANGED <<phase_1_turns, turn_count, victim_response>>
    /\ updates' = Mapping(EmptyMap)
    /\ raw_decision' = Decision(_get_default_decision)
    /\ handler_result' = Continue
    /\ call' = NoCall
    /\ action_reply' = NoActionJson
    /\ UNCHANGED <<current_phase, phase_2_turns, agents, results, handoff>>
    /\ UNCHANGED triage
    /\ UNCHANGED <<backup_vars, controller_stt_queue>>

\* _update_assessment, then the snapshot for the backup
Phase1Extract ==
    /\ pc = "p1_extract"
    /\ \E outcome \in Outcomes, reply \in P1Replies :
         LET result == analyze_victim_response(assessment, outcome, reply)
         IN  /\ updates' = result
             /\ call' = Call("assessment", outcome, result.failed)
             /\ IF updates_failed(result)
                THEN /\ change_to_backup_system(victim_response)
                     /\ ReturnLLMFail
                     /\ UNCHANGED <<assessment, assessed_categories>>
                ELSE /\ assessment' = update_assessment(assessment, result.map)
                     /\ assessed_categories' =
                            update_assessed(assessment, assessed_categories, result.map)
                     /\ report_queue' = Append(report_queue, Snapshot(result.map))
                     /\ pc' = "p1_decide"
                     /\ UNCHANGED <<event, results>>
    /\ UNCHANGED <<counters, victim_response, special_needs, assessed_fields,
                   raw_decision, handler_result, phase_result, action_reply>>
    /\ UNCHANGED triage
    /\ turn_log' = [turn_log EXCEPT !.listens = 0, !.retry_prompts = 0]
    /\ UNCHANGED <<backup_vars, controller_stt_queue>>

\* _evaluate_action_decision of the turn, then the alert when the decision asks for it
Phase1Decide ==
    /\ pc = "p1_decide"
    /\ \E outcome \in Outcomes, reply \in WorkflowActionReplies :
         LET result == decide_next_action(outcome, reply)
         IN  /\ raw_decision' = result
             /\ action_reply' = reply
             /\ call' = Call("action", outcome, result.failed)
             /\ turn_log' =
                    IF decision_failed(result) THEN turn_log
                    ELSE IF result.decision.alert_command_center
                         THEN _alert_command_center(audit_trail(turn_log, result.decision))
                         ELSE audit_trail(turn_log, result.decision)
             /\ IF decision_failed(result)
                THEN /\ change_to_backup_system(victim_response)
                     /\ ReturnLLMFail
                ELSE /\ pc' = "p1_handle"
                     /\ UNCHANGED <<handoff, results>>
    /\ UNCHANGED <<counters, agents, victim_response, updates, handler_result,
                   phase_result>>
    /\ UNCHANGED triage
    /\ UNCHANGED <<backup_vars, controller_stt_queue>>

\* _handle_phase_1_action_decision
Phase1Handle ==
    /\ pc = "p1_handle"
    /\ LET result == _handle_phase_1_action_decision(raw_decision.decision,
                                                     assessment, phase_1_turns)
       IN  /\ handler_result' = result
           /\ IF result.should_exit
              THEN /\ phase_result' = PhaseResult(result.exit_reason,
                                                  Get(result, "next_phase", 0))
                   /\ pc' = "p1_return"
              ELSE /\ phase_result' = phase_result
                   /\ pc' = "p1_question"
    /\ UNCHANGED <<counters, agents, victim_response, updates, raw_decision,
                   results, handoff, call, action_reply>>
    /\ UNCHANGED triage
    /\ UNCHANGED <<turn_log, backup_vars, controller_stt_queue>>

\* _generate_next_phase_1_question
Phase1Question ==
    /\ pc = "p1_question"
    /\ IF get_next_priority_field(assessed_categories) = ""
          \/ is_assessment_complete(assessed_categories)
       THEN /\ pc' = "p1_final"
            /\ UNCHANGED <<handoff, results, call>>
       ELSE \E outcome \in Outcomes, reply \in DialogueReplies :
              LET failed == outcome # "ok" \/ reply = "empty"
              IN  /\ call' = Call("dialogue", outcome, failed)
                  /\ IF failed
                     THEN /\ change_to_backup_system(victim_response)
                          /\ ReturnLLMFail
                     ELSE /\ pc' = "p1_turn"
                          /\ UNCHANGED <<handoff, results>>
    /\ UNCHANGED <<counters, agents, locals, phase_result, action_reply>>
    /\ UNCHANGED triage
    /\ UNCHANGED <<turn_log, backup_vars, controller_stt_queue>>

\* the final action decision when the assessment is complete
Phase1Final ==
    /\ pc = "p1_final"
    /\ \E outcome \in Outcomes, reply \in WorkflowActionReplies :
         LET result == decide_next_action(outcome, reply)
             final == _handle_phase_1_action_decision(result.decision,
                                                      assessment, phase_1_turns)
         IN  /\ raw_decision' = result
             /\ action_reply' = reply
             /\ call' = Call("action_final", outcome, result.failed)
             /\ turn_log' = IF decision_failed(result) THEN turn_log
                             ELSE audit_trail(turn_log, result.decision)
             /\ IF decision_failed(result)
                THEN /\ ReturnError
                     /\ UNCHANGED <<handler_result, phase_result>>
                ELSE /\ handler_result' = final
                     /\ phase_result' = PhaseResult(final.exit_reason,
                                                    Get(final, "next_phase", 2))
                     /\ pc' = "p1_return"
                     /\ UNCHANGED results
    /\ UNCHANGED <<counters, agents, victim_response, updates, handoff>>
    /\ UNCHANGED triage
    /\ UNCHANGED <<backup_vars, controller_stt_queue>>

\* execute_full_workflow after execute_phase_1 returned a result
Phase1Return ==
    /\ pc = "p1_return"
    /\ results' = [results EXCEPT !.phase_1_executed = TRUE,
                                  !.exit_reason = phase_result.exit_reason]
    /\ IF phase_result.next_phase = 2
       THEN /\ current_phase' = 2
            /\ pc' = "p2_turn"
       ELSE /\ current_phase' = current_phase
            /\ pc' = "triage"
    /\ ResetLocals
    /\ UNCHANGED <<phase_1_turns, phase_2_turns, turn_count, agents,
                   phase_result, handoff>>
    /\ UNCHANGED triage
    /\ UNCHANGED <<backup_vars, controller_stt_queue>>

(***************************************************************************)
(* execute_phase_2                                                         *)
(***************************************************************************)
Phase2Turn ==
    /\ pc = "p2_turn"
    /\ IF turns_left(phase_2_turns, MaxPhase2Turns)
       THEN /\ phase_2_turns' = phase_2_turns + 1
            /\ turn_count' = turn_count + 1
            /\ \E arrivals \in Arrivals :
                 LET heard == _get_victim_response(arrivals)
                 IN  /\ victim_response' = heard.response
                     /\ turn_log' = [NoTurnLog EXCEPT !.listens = heard.listens,
                                                      !.retry_prompts = heard.retry_prompts]
                     /\ IF heard.response = NoResponse
                        THEN /\ phase_result' = PhaseResult("no_victim_response", 0)
                             /\ pc' = "p2_return"
                        ELSE /\ phase_result' = phase_result
                             /\ pc' = "p2_extract"
       ELSE /\ phase_result' = PhaseResult("max_turns_reached", 0)
            /\ pc' = "p2_return"
            /\ turn_log' = NoTurnLog
            /\ UNCHANGED <<phase_2_turns, turn_count, victim_response>>
    /\ updates' = Mapping(EmptyMap)
    /\ raw_decision' = Decision(_get_default_decision)
    /\ handler_result' = Continue
    /\ call' = NoCall
    /\ action_reply' = NoActionJson
    /\ UNCHANGED <<current_phase, phase_1_turns, agents, results, handoff>>
    /\ UNCHANGED triage
    /\ UNCHANGED <<backup_vars, controller_stt_queue>>

\* _update_comfort_assessment
Phase2Extract ==
    /\ pc = "p2_extract"
    /\ \E outcome \in Outcomes, reply \in P2Replies :
         LET result == comfort_analyze_victim_response(outcome, reply)
         IN  /\ updates' = result
             /\ call' = Call("comfort_assessment", outcome, result.failed)
             /\ assessed_fields' = comfort_analyze_assessed(assessed_fields, outcome, reply)
             /\ special_needs' = update_special_needs(special_needs, result.map)
    /\ pc' = "p2_decide"
    /\ UNCHANGED <<counters, assessment, assessed_categories, victim_response,
                   raw_decision, handler_result, phase_result, results, handoff,
                   action_reply>>
    /\ UNCHANGED triage
    /\ turn_log' = [turn_log EXCEPT !.listens = 0, !.retry_prompts = 0]
    /\ UNCHANGED <<backup_vars, controller_stt_queue>>

\* _evaluate_action_decision of the turn, then the alert when the decision asks
\* for it; a None decision raises at action_decision.alert_command_center
Phase2Decide ==
    /\ pc = "p2_decide"
    /\ \E outcome \in Outcomes, reply \in WorkflowActionReplies :
         LET result == decide_next_action(outcome, reply)
         IN  /\ raw_decision' = result
             /\ action_reply' = reply
             /\ call' = Call("action", outcome, result.failed)
             /\ turn_log' =
                    IF decision_failed(result) THEN turn_log
                    ELSE IF result.decision.alert_command_center
                         THEN _alert_command_center(audit_trail(turn_log, result.decision))
                         ELSE audit_trail(turn_log, result.decision)
             /\ IF decision_failed(result)
                THEN ReturnError
                ELSE /\ pc' = "p2_handle"
                     /\ UNCHANGED results
    /\ UNCHANGED <<counters, agents, victim_response, updates, handler_result,
                   phase_result, handoff>>
    /\ UNCHANGED triage
    /\ UNCHANGED <<backup_vars, controller_stt_queue>>

\* _handle_phase_2_action_decision
Phase2Handle ==
    /\ pc = "p2_handle"
    /\ LET result == _handle_phase_2_action_decision(raw_decision.decision)
       IN  /\ handler_result' = result
           /\ IF result.should_exit
              THEN /\ phase_result' = PhaseResult(result.exit_reason, 0)
                   /\ pc' = "p2_return"
              ELSE /\ phase_result' = phase_result
                   /\ pc' = "p2_question"
    /\ UNCHANGED <<counters, agents, victim_response, updates, raw_decision,
                   results, handoff, call, action_reply>>
    /\ UNCHANGED triage
    /\ UNCHANGED <<turn_log, backup_vars, controller_stt_queue>>

\* _generate_next_phase_2_message: the comfort agent asks from a fixed table
Phase2Question ==
    /\ pc = "p2_question"
    /\ IF comfort_get_next_priority_field(special_needs, assessed_fields) = ""
          \/ comfort_is_assessment_complete(assessed_fields)
       THEN /\ phase_result' = PhaseResult("phase_2_complete", 0)
            /\ pc' = "p2_return"
       ELSE /\ phase_result' = phase_result
            /\ pc' = "p2_turn"
    /\ call' = Call("comfort", "ok", FALSE)
    /\ UNCHANGED <<counters, agents, locals, results, handoff, action_reply>>
    /\ UNCHANGED triage
    /\ UNCHANGED <<turn_log, backup_vars, controller_stt_queue>>

\* execute_full_workflow after execute_phase_2 returned
Phase2Return ==
    /\ pc = "p2_return"
    /\ results' = [results EXCEPT !.phase_2_executed = TRUE,
                                  !.exit_reason = phase_result.exit_reason]
    /\ pc' = "triage"
    /\ ResetLocals
    /\ UNCHANGED <<counters, agents, phase_result, handoff>>
    /\ UNCHANGED triage
    /\ UNCHANGED <<backup_vars, controller_stt_queue>>

(***************************************************************************)
(* TriageAgent and the end of the workflow                                 *)
(***************************************************************************)
valid_priorities == <<<<"Red">>, <<"Yellow">>, <<"Green">>, <<"Black">>>>
default_priority == <<"Yellow">>

TriageReplies ==
    {<<"Red">>, <<"victim", "sp", "is", "sp", "GREEN">>, <<"unsure">>, <<>>,
     <<"Black">>, <<"Yellow">>, <<"priority", "sp", "red">>}

triage_is_assessment_sufficient_any(rec) ==
    \E f \in DOMAIN rec :
        Strip(rec[f]) # <<>> /\ Lower(Strip(rec[f])) # UNKNOWN

\* TriageAgent._is_assessment_sufficient
triage_is_assessment_sufficient(rec) ==
    \E f \in {"injuries", "breathing", "consciousness", "immediate_danger"} :
        LET value == Strip(IF f \in DOMAIN rec THEN rec[f] ELSE <<>>)
        IN  value # <<>> /\ Lower(value) # UNKNOWN

\* TriageAgent._clean_priority_response
_clean_priority_response(response) ==
    LET text == Strip(response)
        hits == {i \in DOMAIN valid_priorities :
                    Contains(Lower(valid_priorities[i]), Lower(text))}
    IN  IF hits # {}
        THEN valid_priorities[CHOOSE i \in hits : \A j \in hits : i <= j]
        ELSE text

\* TriageAgent._get_llm_triage_decision
_get_llm_triage_decision(outcome, reply) ==
    IF outcome = "ok" THEN _clean_priority_response(reply) ELSE default_priority

assign_triage_priority_raw(rec, outcome, reply) ==
    IF DOMAIN rec = {} \/ ~triage_is_assessment_sufficient(rec) THEN default_priority
    ELSE _get_llm_triage_decision(outcome, reply)

\* TriageAgent.assign_triage_priority
assign_triage_priority(rec, outcome, reply) ==
    IF DOMAIN rec = {} \/ ~triage_is_assessment_sufficient(rec) THEN default_priority
    ELSE LET priority == _get_llm_triage_decision(outcome, reply)
         IN  IF \E i \in DOMAIN valid_priorities : valid_priorities[i] = priority
             THEN priority
             ELSE default_priority

\* generate_rescue_report: the line of the TRIAGE PRIORITY section, read from
\* the assessment record of the extraction agent
generate_rescue_report(rec) ==
    IF "priority" \in DOMAIN rec THEN rec["priority"]
    ELSE <<"Not", "sp", "assessed">>

\* _perform_final_triage and the return of execute_full_workflow
\* TriageAgent.assign_triage_priority run on rec: the priority, and the LLM
\* call when the assessment is sufficient
TriageAssign(rec) ==
    IF DOMAIN rec # {} /\ triage_is_assessment_sufficient(rec)
    THEN \E outcome \in Outcomes, reply \in TriageReplies :
           /\ call' = Call("triage", outcome, FALSE)
           /\ triage' = [runs |-> triage.runs + 1, calls |-> triage.calls + 1,
                         reply |-> IF outcome = "ok" THEN reply ELSE <<>>]
           /\ results' = [results EXCEPT
                 !.triage_priority = assign_triage_priority(rec, outcome, reply),
                 !.rescue_report = generate_rescue_report(rec),
                 !.returned = "completed"]
    ELSE /\ call' = NoCall
         /\ triage' = [triage EXCEPT !.runs = triage.runs + 1]
         /\ results' = [results EXCEPT
                 !.triage_priority = assign_triage_priority(rec, "ok", <<>>),
                 !.rescue_report = generate_rescue_report(rec),
                 !.returned = "completed"]

\* _perform_final_triage and the return of execute_full_workflow
FinalTriage ==
    /\ pc = "triage"
    /\ TriageAssign(assessment)
    /\ pc' = "returned"
    /\ UNCHANGED <<counters, agents, locals, phase_result, handoff, action_reply>>
    /\ UNCHANGED <<turn_log, backup_vars, controller_stt_queue>>

Next ==
    \/ StartWorkflow
    \/ Phase1Turn \/ Phase1Extract \/ Phase1Decide \/ Phase1Handle
    \/ Phase1Question \/ Phase1Final \/ Phase1Return
    \/ Phase2Turn \/ Phase2Extract \/ Phase2Decide \/ Phase2Handle
    \/ Phase2Question \/ Phase2Return
    \/ FinalTriage

Spec == Init /\ [][Next]_vars

(***************************************************************************)
(* The ActionAgent on its own: decide_next_action applied to every reply   *)
(***************************************************************************)
AgentInit ==
    /\ pc = "agent"
    /\ action_reply \in ActionReplies
    /\ current_phase = 0
    /\ phase_1_turns = 0 /\ phase_2_turns = 0 /\ turn_count = 0
    /\ victim_response = NoResponse
    /\ assessment = InitialAssessment
    /\ assessed_categories = {}
    /\ special_needs = InitialSpecialNeeds
    /\ assessed_fields = {}
    /\ updates = Mapping(EmptyMap)
    /\ raw_decision = Decision(_get_default_decision)
    /\ handler_result = Continue
    /\ phase_result = NoPhaseResult
    /\ results = InitialResults
    /\ report_queue = <<>>
    /\ event = FALSE
    /\ call = NoCall
    /\ triage = NoTriage
    /\ turn_log = NoTurnLog
    /\ BackupInit
    /\ controller_stt_queue = <<>>

AgentDecide ==
    /\ pc = "agent"
    /\ \E outcome \in Outcomes :
         LET result == decide_next_action(outcome, action_reply)
         IN  /\ raw_decision' = result
             /\ call' = Call("action", outcome, result.failed)
    /\ pc' = "agent_done"
    /\ UNCHANGED <<counters, agents, victim_response, updates, handler_result,
                   phase_result, results, handoff, action_reply>>
    /\ UNCHANGED triage
    /\ UNCHANGED <<turn_log, backup_vars, controller_stt_queue>>

AgentNext == AgentDecide

AgentSpec == AgentInit /\ [][AgentNext]_vars

(***************************************************************************)
(* The TriageAgent on its own: assign_triage_priority on every assessment  *)
(***************************************************************************)
AllUnknown == [f \in AssessmentFields |-> UNKNOWN]

\* assessments handed to assign_triage_priority: the four critical fields
\* unknown, empty, blank or missing; one field known; the records of a workflow
TriageAssessments ==
    { AllUnknown,
      [AllUnknown EXCEPT !["injuries"] = <<>>, !["breathing"] = <<"sp">>,
                         !["consciousness"] = <<"UNKNOWN">>,
                         !["immediate_danger"] = <<"unknown", "sp">>],
      [AllUnknown EXCEPT !["can_walk"] = <<"yes">>, !["stuck_trapped"] = <<"no">>],
      [f \in {"can_walk"} |-> <<"yes">>],
      EmptyMap,
      InitialAssessment, SufficientPrior, PartialPrior,
      [AllUnknown EXCEPT !["injuries"] = <<"yes", "sp", "dash", "sp", "leg">>],
      [AllUnknown EXCEPT !["breathing"] = <<"no">>],
      [AllUnknown EXCEPT !["consciousness"] = <<"Conscious">>, !["injuries"] = <<>>],
      [AllUnknown EXCEPT !["immediate_danger"] = <<"gas", "sp", "leak">>],
      [AllUnknown EXCEPT !["breathing"] = <<"sp", "yes">>],
      [f \in {"injuries"} |-> <<"arm">>],
      [f \in {"breathing", "can_walk"} |-> <<"yes">>] }

TriageInit ==
    /\ pc = "triage_agent"
    /\ assessment \in TriageAssessments
    /\ current_phase = 0
    /\ phase_1_turns = 0 /\ phase_2_turns = 0 /\ turn_count = 0
    /\ victim_response = NoResponse
    /\ assessed_categories = {}
    /\ special_needs = InitialSpecialNeeds
    /\ assessed_fields = {}
    /\ updates = Mapping(EmptyMap)
    /\ raw_decision = Decision(_get_default_decision)
    /\ handler_result = Continue
    /\ phase_result = NoPhaseResult
    /\ results = InitialResults
    /\ report_queue = <<>>
    /\ event = FALSE
    /\ call = NoCall
    /\ action_reply = NoActionJson
    /\ triage = NoTriage
    /\ turn_log = NoTurnLog
    /\ BackupInit
    /\ controller_stt_queue = <<>>

TriageAgentAssign ==
    /\ pc = "triage_agent"
    /\ TriageAssign(assessment)
    /\ pc' = "triage_done"
    /\ UNCHANGED <<counters, agents, locals, phase_result, handoff, action_reply>>
    /\ UNCHANGED <<turn_log, backup_vars, controller_stt_queue>>

TriageNext == TriageAgentAssign

TriageSpec == TriageInit /\ [][TriageNext]_vars

(***************************************************************************)
(* The two records on their own: sequences of extractions and merges       *)
(***************************************************************************)
One(f, v) == [g \in {f} |-> v]

InjuryTexts ==
    {<<"yes", "sp", "dash", "sp", "leg">>, <<"arm">>, <<"leg">>,
     <<"yes", "sp", "dash", "sp", "arm">>,
     <<"arm", "sp", "no", "sp", "dash", "sp", "leg">>}

StuckTexts == {<<"yes">>, <<"YES">>, <<"no">>}

WalkTexts == {<<"yes">>, <<"unknown", "sp">>}

\* objects the Phase 1 extraction LLM returns in this specification
RecordObjects1 ==
    {One("injuries", v) : v \in InjuryTexts}
    \cup {One("stuck_trapped", v) : v \in StuckTexts}
    \cup {One("can_walk", v) : v \in WalkTexts}
    \cup {[g \in {"stuck_trapped", "can_walk"} |->
              IF g = "stuck_trapped" THEN a ELSE b] : a \in StuckTexts, b \in WalkTexts}

\* objects the Phase 2 extraction LLM returns in this specification
RecordObjects2 ==
    {One("allergies", v) : v \in {<<"penicillin">>, <<"latex">>, <<"unknown">>, <<>>}}

RecordInit ==
    /\ pc = "record"
    /\ current_phase = 0
    /\ phase_1_turns = 0 /\ phase_2_turns = 0 /\ turn_count = 0
    /\ victim_response = NoResponse
    /\ assessment = InitialAssessment
    /\ assessed_categories = {}
    /\ special_needs = InitialSpecialNeeds
    /\ assessed_fields = {}
    /\ updates = Mapping(EmptyMap)
    /\ raw_decision = Decision(_get_default_decision)
    /\ handler_result = Continue
    /\ phase_result = NoPhaseResult
    /\ results = InitialResults
    /\ report_queue = <<>>
    /\ event = FALSE
    /\ call = NoCall
    /\ action_reply = NoActionJson
    /\ triage = NoTriage
    /\ turn_log = NoTurnLog
    /\ BackupInit
    /\ controller_stt_queue = <<>>

\* analyze_victim_response on a reply, then update_assessment on its result
AssessmentUpdate ==
    /\ pc \in {"record", "record_updated", "record_repeated"}
    /\ turn_count < MaxUpdates
    /\ \E o \in RecordObjects1 :
         LET result == analyze_victim_response(assessment, "ok", Json(o))
         IN  /\ updates' = result
             /\ assessment' = update_assessment(assessment, result.map)
             /\ assessed_categories' =
                    update_assessed(assessment, assessed_categories, result.map)
    /\ call' = Call("assessment", "ok", FALSE)
    /\ turn_count' = turn_count + 1
    /\ pc' = "record_updated"
    /\ UNCHANGED <<current_phase, phase_1_turns, phase_2_turns, victim_response,
                   special_needs, assessed_fields, raw_decision, handler_result,
                   phase_result, results, handoff, action_reply, triage>>
    /\ UNCHANGED <<turn_log, backup_vars, controller_stt_queue>>

\* the same for the Phase 2 record
SpecialNeedsUpdate ==
    /\ pc \in {"record", "record_updated", "record_repeated"}
    /\ turn_count < MaxUpdates
    /\ \E o \in RecordObjects2 :
         LET result == comfort_analyze_victim_response("ok", Json(o))
         IN  /\ updates' = result
             /\ assessed_fields' = comfort_analyze_assessed(assessed_fields, "ok", Json(o))
             /\ special_needs' = update_special_needs(special_needs, result.map)
    /\ call' = Call("comfort_assessment", "ok", FALSE)
    /\ turn_count' = turn_count + 1
    /\ pc' = "record_updated"
    /\ UNCHANGED <<current_phase, phase_1_turns, phase_2_turns, victim_response,
                   assessment, assessed_categories, raw_decision, handler_result,
                   phase_result, results, handoff, action_reply, triage>>
    /\ UNCHANGED <<turn_log, backup_vars, controller_stt_queue>>

\* the update mapping of the last step is merged once more
RepeatUpdate ==
    /\ pc = "record_updated"
    /\ IF call.agent = "assessment"
       THEN /\ assessment' = update_assessment(assessment, updates.map)
            /\ assessed_categories' =
                   update_assessed(assessment, assessed_categories, updates.map)
            /\ UNCHANGED <<special_needs, assessed_fields>>
       ELSE /\ special_needs' = update_special_needs(special_needs, updates.map)
            /\ UNCHANGED <<assessment, assessed_categories, assessed_fields>>
    /\ pc' = "record_repeated"
    /\ UNCHANGED <<counters, locals, phase_result, results, handoff, call,
                   action_reply, triage>>
    /\ UNCHANGED <<turn_log, backup_vars, controller_stt_queue>>

RecordNext == AssessmentUpdate \/ SpecialNeedsUpdate \/ RepeatUpdate

RecordSpec == RecordInit /\ [][RecordNext]_vars

(***************************************************************************)
(* The two tasks of main: the primary pipeline, seen from the hand-off     *)
(* queue, and the backup with its standby loop and its interview           *)
(***************************************************************************)
MaxSnapshots == 2
MaxRepeats == 1
MaxDiscarded == 1
MaxQueued == 1

FailAtStart == [info |-> "fail_at_start", data |-> <<>>]

\* the update mappings the primary hands over, one per Phase 1 turn
HandoffSnapshots ==
    { One("injuries", <<"yes", "sp", "dash", "sp", "leg">>),
      [g \in {"breathing", "immediate_danger"} |->
          IF g = "breathing" THEN <<"yes">> ELSE <<"seems", "sp", "unstable">>],
      One("stuck_trapped", <<"YES">>),
      One("can_walk", <<"yes">>),
      EmptyMap }

\* what the victim says to the backup
BackupReplies == {<<"yes">>, <<"no">>, <<"maybe">>}

\* BackupInteraction.analyze_response, language "en"
analyze_response(response) ==
    LET text == Lower(response)
    IN  IF Contains(<<"no">>, text) THEN "negative"
        ELSE IF Contains(<<"yes">>, text) \/ Contains(<<"i", "sp", "can">>, text)
             THEN "positive"
             ELSE "unknown"

\* the snapshot branch of on_standby
mirror(situation, snapshot) ==
    [f \in DOMAIN situation \cup DOMAIN snapshot |->
        IF f \in DOMAIN snapshot THEN snapshot[f] ELSE situation[f]]

\* BackupInteraction.on_standby run on the messages of the queue, in order, up
\* to the first failure message: the record the backup holds when it returns
RECURSIVE on_standby(_, _)
on_standby(situation, queue) ==
    IF queue = <<>> THEN situation
    ELSE LET message == Head(queue)
         IN  IF message.info = "fail_at_start" THEN situation
             ELSE IF message.info = "fail"
             THEN [situation EXCEPT !["consciousness"] = <<"Conscious">>]
             ELSE on_standby(IF message.data # EmptyMap
                             THEN mirror(situation, message.data)
                             ELSE situation,
                             Tail(queue))

\* the fields of the record that hold a text, priority apart
present_fields(situation) ==
    {f \in DOMAIN situation : situation[f] # None /\ f # "priority"}

\* BackupInteraction.identify_selected_nodes
identify_selected_nodes(situation) ==
    UNION {question_to_field(field) :
              field \in {f \in DOMAIN situation :
                            situation[f] # None /\ f # "priority" /\ f # "consciousness"}}

\* the while loop of select_node
RECURSIVE skip_occupied(_, _)
skip_occupied(next_node, occupied) ==
    IF next_node \in occupied THEN skip_occupied(next_node + 1, occupied)
    ELSE next_node

select_node_no_skip(last_node, answer, mob, occupied) ==
    LET next_node == skip_occupied(last_node + 1, occupied)
    IN  IF last_node = 3 /\ answer = "positive"
        THEN [node |-> 5, mobility |-> "False"]
        ELSE LET m == IF last_node = 4 /\ answer = "positive" THEN "True" ELSE mob
             IN  IF last_node = 6
                 THEN [node |-> IF m = "True" THEN 8 ELSE 7, mobility |-> m]
                 ELSE [node |-> next_node, mobility |-> m]

select_node_no_redirect(last_node, answer, mob, occupied) ==
    LET next_node == skip_occupied(last_node + 1, occupied)
    IN  IF last_node = 0 /\ answer = "negative"
        THEN [node |-> 2, mobility |-> mob]
        ELSE LET m == IF last_node = 4 /\ answer = "positive" THEN "True" ELSE mob
             IN  IF last_node = 6
                 THEN [node |-> IF m = "True" THEN 8 ELSE 7, mobility |-> m]
                 ELSE [node |-> next_node, mobility |-> m]

select_node_reask(last_node, answer, mob, occupied) ==
    LET next_node == skip_occupied(last_node + 1, occupied)
    IN  IF last_node >= 0 /\ answer = "unknown"
        THEN [node |-> last_node, mobility |-> mob]
        ELSE IF last_node = 0 /\ answer = "negative"
        THEN [node |-> 2, mobility |-> mob]
        ELSE IF last_node = 3 /\ answer = "positive"
        THEN [node |-> 5, mobility |-> "False"]
        ELSE LET m == IF last_node = 4 /\ answer = "positive" THEN "True" ELSE mob
             IN  IF last_node = 6
                 THEN [node |-> IF m = "True" THEN 8 ELSE 7, mobility |-> m]
                 ELSE [node |-> next_node, mobility |-> m]

\* BackupInteraction.select_node; mobility is "None", "True" or "False"
select_node(last_node, answer, mob, occupied) ==
    LET next_node == skip_occupied(last_node + 1, occupied)
    IN  IF last_node = 0 /\ answer = "negative"
        THEN [node |-> 2, mobility |-> mob]
        ELSE IF last_node = 3 /\ answer = "positive"
        THEN [node |-> 5, mobility |-> "False"]
        ELSE LET m == IF last_node = 4 /\ answer = "positive" THEN "True" ELSE mob
             IN  IF last_node = 6
                 THEN [node |-> IF m = "True" THEN 8 ELSE 7, mobility |-> m]
                 ELSE [node |-> next_node, mobility |-> m]

\* the record update at the end of interact
interact_update(situation, n, response, status) ==
    CASE n = 1 -> [situation EXCEPT !["injuries"] = response,
                                    !["consciousness"] = <<"Conscious">>]
      [] n = 2 -> [situation EXCEPT !["breathing"] =
                      IF status = "positive" THEN <<"Trouble", "sp", "Breathing">>
                      ELSE <<"No", "sp", "trouble">>]
      [] n = 3 -> IF status = "positive"
                  THEN [situation EXCEPT
                          !["stuck_trapped"] = <<"Possibly", "sp", "stuck">>,
                          !["robot_action"] = <<"Wait", "sp", "for", "sp", "responder">>,
                          !["can_walk"] = <<"Cannot", "sp", "walk">>]
                  ELSE [situation EXCEPT
                          !["stuck_trapped"] = <<"Possibly", "sp", "not", "sp", "stuck">>]
      [] n = 4 -> IF status = "positive"
                  THEN [situation EXCEPT
                          !["can_walk"] = <<"Can", "sp", "walk">>,
                          !["robot_action"] = <<"Guide", "sp", "victim">>]
                  ELSE [situation EXCEPT
                          !["can_walk"] = <<"Cannot", "sp", "walk">>,
                          !["robot_action"] = <<"Wait", "sp", "for", "sp", "responder">>]
      [] n = 5 -> [situation EXCEPT !["people_in_surroundings"] =
                      IF status = "positive" THEN <<"Others", "sp", "present">>
                      ELSE <<"None", "sp", "nearby">>]
      [] n = 6 -> [situation EXCEPT !["immediate_danger"] =
                      IF status = "positive" THEN <<"Danger", "sp", "nearby">>
                      ELSE <<"Not", "sp", "clear">>]
      [] OTHER -> situation

send_status_to_c2_priority(situation) == [f \in {"priority"} |-> situation[f]]

\* BackupInteraction.send_status_to_c2: the data of the publication
send_status_to_c2(situation) ==
    [f \in {g \in DOMAIN situation : situation[g] # None} |-> situation[f]]

stt_accepted_always(background) == TRUE

\* BackupInteraction.on_stt_message: a victim message is queued only when the
\* backup is not in the background
stt_accepted(background) == ~background

\* the variables only the controller writes
controller_vars ==
    <<current_phase, phase_2_turns, victim_response, assessment,
      assessed_categories, special_needs, assessed_fields, updates, raw_decision,
      handler_result, phase_result, results, call, action_reply, triage, turn_log,
      controller_stt_queue>>

SystemInit ==
    /\ pc = "robot"
    /\ current_phase = 0
    /\ phase_1_turns = 0 /\ phase_2_turns = 0 /\ turn_count = 0
    /\ victim_response = NoResponse
    /\ assessment = InitialAssessment
    /\ assessed_categories = {}
    /\ special_needs = InitialSpecialNeeds
    /\ assessed_fields = {}
    /\ updates = Mapping(EmptyMap)
    /\ raw_decision = Decision(_get_default_decision)
    /\ handler_result = Continue
    /\ phase_result = NoPhaseResult
    /\ results = InitialResults
    /\ report_queue = <<>>
    /\ event = FALSE
    /\ call = NoCall
    /\ action_reply = NoActionJson
    /\ triage = NoTriage
    /\ turn_log = NoTurnLog
    /\ BackupInit
    /\ controller_stt_queue = <<>>

\* run_rescue_robot: validate_system_readiness fails
RobotValidationFails ==
    /\ pc = "robot"
    /\ report_queue' = Append(report_queue, FailAtStart)
    /\ event' = TRUE
    /\ pc' = "robot_returned"
    /\ UNCHANGED <<phase_1_turns, turn_count, controller_vars, backup_vars>>

\* run_rescue_robot: the system is ready, run_conversation starts in its thread
RobotStarts ==
    /\ pc = "robot"
    /\ pc' = "conversation"
    /\ UNCHANGED <<phase_1_turns, turn_count, handoff, controller_vars, backup_vars>>

\* a Phase 1 turn of the conversation: the robot speaks, hands the update
\* mapping of the turn over and alerts the command center when the decision
\* of the turn asks for it
RobotSnapshot ==
    /\ pc = "conversation"
    /\ turn_count < MaxSnapshots
    /\ \E m \in HandoffSnapshots :
         report_queue' = Append(report_queue, Snapshot(m))
    /\ phase_1_turns' = phase_1_turns + 1
    /\ turn_count' = turn_count + 1
    /\ \E alert \in BOOLEAN :
         turn_log' = IF alert
                     THEN _alert_command_center(
                              [NoTurnLog EXCEPT !.alert_decisions = 1])
                     ELSE NoTurnLog
    /\ UNCHANGED <<pc, event, current_phase, phase_2_turns, victim_response,
                   assessment, assessed_categories, special_needs,
                   assessed_fields, updates, raw_decision, handler_result,
                   phase_result, results, call, action_reply, triage,
                   controller_stt_queue, backup_vars>>

RobotFails_continues ==
    /\ pc = "conversation"
    /\ \E response \in Utterances : change_to_backup_system(response)
    /\ UNCHANGED <<pc, phase_1_turns, turn_count, controller_vars, backup_vars>>

\* an agent fails: change_to_backup_system, the workflow returns None, None and
\* run_rescue_robot returns on the cancellation flag
RobotFails ==
    /\ pc = "conversation"
    /\ \E response \in Utterances : change_to_backup_system(response)
    /\ pc' = "robot_returned"
    /\ UNCHANGED <<phase_1_turns, turn_count, controller_vars, backup_vars>>

\* the workflow runs to its end: triage, final report, return
RobotCompletes ==
    /\ pc = "conversation"
    /\ pc' = "robot_returned"
    /\ UNCHANGED <<phase_1_turns, turn_count, handoff, controller_vars, backup_vars>>

\* the workflow caught an exception and returned results without total_turns:
\* run_conversation raises and run_rescue_robot lets the exception through
RobotRaises ==
    /\ pc = "conversation"
    /\ pc' = "robot_raised"
    /\ UNCHANGED <<phase_1_turns, turn_count, handoff, controller_vars, backup_vars>>

\* main: gather raises, main returns 1 and the event loop, closing, cancels
\* the backup task at its await
MainExcept ==
    /\ pc = "robot_raised"
    /\ backup_pc = "standby"
    /\ backup_pc' = "cancelled"
    /\ UNCHANGED <<pc, phase_1_turns, turn_count, handoff, controller_vars,
                   victim_situation, occupied_nodes, in_background, first_message,
                   stt_queue, stt_discarded, node, last_answer, mobility,
                   handed_off, asked, reports, spoken>>

\* on_stt_message of the backup: a victim message arrives on the bus
VictimMessage ==
    /\ backup_pc \notin {"done", "cancelled"}
    /\ \E message \in BackupReplies :
         IF stt_accepted(in_background)
         THEN /\ Len(stt_queue) < MaxQueued
              /\ stt_queue' = Append(stt_queue, message)
              /\ first_message' = FALSE
              /\ UNCHANGED stt_discarded
         ELSE /\ stt_discarded < MaxDiscarded
              /\ stt_discarded' = stt_discarded + 1
              /\ UNCHANGED <<stt_queue, first_message>>
    /\ UNCHANGED <<pc, phase_1_turns, turn_count, handoff, controller_vars,
                   backup_pc, victim_situation, occupied_nodes, in_background,
                   node, last_answer, mobility, handed_off, asked, reports, spoken>>

\* one round of the loop of on_standby, with what interaction_tree does when
\* on_standby returns
BackupStandby ==
    /\ backup_pc = "standby"
    /\ report_queue # <<>>
    /\ report_queue' = Tail(report_queue)
    /\ LET message == Head(report_queue)
       IN  IF message.info = "fail_at_start"
           THEN /\ in_background' = FALSE
                /\ backup_pc' = IF first_message THEN "wait_first" ELSE "select"
                /\ UNCHANGED <<victim_situation, occupied_nodes, first_message,
                               last_answer, handed_off>>
           ELSE IF message.info = "fail"
           THEN /\ victim_situation' =
                       [victim_situation EXCEPT !["consciousness"] = <<"Conscious">>]
                /\ in_background' = FALSE
                /\ first_message' = FALSE
                /\ occupied_nodes' =
                       occupied_nodes \cup identify_selected_nodes(victim_situation')
                /\ handed_off' = present_fields(victim_situation)
                /\ last_answer' = analyze_response(message.data)
                /\ backup_pc' = "select"
           ELSE /\ victim_situation' =
                       IF message.data # EmptyMap
                       THEN mirror(victim_situation, message.data)
                       ELSE victim_situation
                /\ UNCHANGED <<backup_pc, occupied_nodes, in_background,
                               first_message, last_answer, handed_off>>
    /\ UNCHANGED <<pc, phase_1_turns, turn_count, event, controller_vars,
                   stt_queue, stt_discarded, node, mobility, asked, reports, spoken>>

\* wait_for_first_message
BackupWaitFirst ==
    /\ backup_pc = "wait_first"
    /\ stt_queue # <<>>
    /\ stt_queue' = Tail(stt_queue)
    /\ backup_pc' = "select"
    /\ UNCHANGED <<pc, phase_1_turns, turn_count, handoff, controller_vars,
                   victim_situation, occupied_nodes, in_background, first_message,
                   stt_discarded, node, last_answer, mobility, handed_off, asked,
                   reports, spoken>>

\* select_node in the loop of interaction_tree
BackupSelect ==
    /\ backup_pc = "select"
    /\ LET selected == select_node(node, last_answer, mobility, occupied_nodes)
       IN  /\ node' = selected.node
           /\ mobility' = selected.mobility
    /\ backup_pc' = "ask"
    /\ UNCHANGED <<pc, phase_1_turns, turn_count, handoff, controller_vars,
                   victim_situation, occupied_nodes, in_background, first_message,
                   stt_queue, stt_discarded, last_answer, handed_off, asked,
                   reports, spoken>>

\* interact: the question of the node; a leaf node (7, 8) takes no answer,
\* publishes and ends the loop
BackupAsk ==
    /\ backup_pc = "ask"
    /\ asked' = Append(asked, node)
    /\ spoken' = spoken + 1
    /\ IF node < 7
       THEN /\ backup_pc' = "listen"
            /\ UNCHANGED <<reports, last_answer>>
       ELSE /\ reports' = Append(reports, send_status_to_c2(victim_situation))
            /\ last_answer' = "positive"
            /\ backup_pc' = "finished"
    /\ UNCHANGED <<pc, phase_1_turns, turn_count, handoff, controller_vars,
                   victim_situation, occupied_nodes, in_background, first_message,
                   stt_queue, stt_discarded, node, mobility, handed_off>>

\* interact: listen() times out, the backup asks the victim to repeat
BackupRepeat ==
    /\ backup_pc = "listen"
    /\ stt_queue = <<>>
    /\ spoken < Len(asked) + MaxRepeats
    /\ spoken' = spoken + 1
    /\ UNCHANGED <<pc, phase_1_turns, turn_count, handoff, controller_vars,
                   backup_pc, victim_situation, occupied_nodes, in_background,
                   first_message, stt_queue, stt_discarded, node, last_answer,
                   mobility, handed_off, asked, reports>>

\* interact: listen() returns an answer, the record is updated and published
BackupHears ==
    /\ backup_pc = "listen"
    /\ stt_queue # <<>>
    /\ LET response == Head(stt_queue)
           status == analyze_response(response)
       IN  /\ victim_situation' = interact_update(victim_situation, node, response, status)
           /\ reports' = Append(reports, send_status_to_c2(victim_situation'))
           /\ last_answer' = status
    /\ stt_queue' = Tail(stt_queue)
    /\ backup_pc' = "select"
    /\ UNCHANGED <<pc, phase_1_turns, turn_count, handoff, controller_vars,
                   occupied_nodes, in_background, first_message, stt_discarded,
                   node, mobility, handed_off, asked, spoken>>

\* run_backup_interaction after interaction_tree returned: the final report
BackupFinish ==
    /\ backup_pc = "finished"
    /\ backup_pc' = "done"
    /\ UNCHANGED <<pc, phase_1_turns, turn_count, handoff, controller_vars,
                   victim_situation, occupied_nodes, in_background, first_message,
                   stt_queue, stt_discarded, node, last_answer, mobility,
                   handed_off, asked, reports, spoken>>

SystemNext ==
    \/ RobotValidationFails \/ RobotStarts \/ RobotSnapshot \/ RobotFails
    \/ RobotCompletes \/ RobotRaises \/ MainExcept
    \/ VictimMessage
    \/ BackupStandby \/ BackupWaitFirst \/ BackupSelect \/ BackupAsk
    \/ BackupRepeat \/ BackupHears \/ BackupFinish

SystemSpec == SystemInit /\ [][SystemNext]_vars

\* the event loop runs every task that can take a step, and the victim goes
\* on speaking
FairSystemSpec == SystemSpec /\ WF_vars(SystemNext)

\* the backup task runs whenever it can take a step; the victim is free to
\* stay silent
FairBackupSpec ==
    SystemSpec /\ WF_vars(BackupStandby \/ BackupWaitFirst \/ BackupSelect
                             \/ BackupAsk \/ BackupRepeat \/ BackupHears
                             \/ BackupFinish)

(***************************************************************************)
(* The listening of the primary on its own: on_stt_message fills the STT   *)
(* queue at any time, the turns of execute_phase_1 speak, listen and run   *)
(* the LLM calls                                                           *)
(***************************************************************************)
listen_frame ==
    <<current_phase, phase_2_turns, assessment, assessed_categories,
      special_needs, assessed_fields, updates, raw_decision, handler_result,
      phase_result, results, report_queue, event, call, action_reply, triage,
      backup_vars>>

ListenInit ==
    /\ pc = "wait_for_victim"
    /\ current_phase = 1
    /\ phase_1_turns = 0 /\ phase_2_turns = 0 /\ turn_count = 0
    /\ victim_response = NoResponse
    /\ assessment = InitialAssessment
    /\ assessed_categories = {}
    /\ special_needs = InitialSpecialNeeds
    /\ assessed_fields = {}
    /\ updates = Mapping(EmptyMap)
    /\ raw_decision = Decision(_get_default_decision)
    /\ handler_result = Continue
    /\ phase_result = NoPhaseResult
    /\ results = InitialResults
    /\ report_queue = <<>>
    /\ event = FALSE
    /\ call = NoCall
    /\ action_reply = NoActionJson
    /\ triage = NoTriage
    /\ turn_log = NoTurnLog
    /\ BackupInit
    /\ controller_stt_queue = <<>>

\* PhaseController.on_stt_message: the MQTT thread queues every victim message,
\* whatever the controller is doing
on_stt_message ==
    /\ pc # "listen_done"
    /\ Len(controller_stt_queue) < MaxQueued
    /\ \E message \in Utterances :
         controller_stt_queue' =
             Append(controller_stt_queue,
                    [message |-> message, heard_after |-> turn_count])
    /\ UNCHANGED <<pc, phase_1_turns, turn_count, victim_response, turn_log,
                   listen_frame>>

\* wait_for_victim: the first message of the victim starts the workflow
ListenWaitForVictim ==
    /\ pc = "wait_for_victim"
    /\ controller_stt_queue # <<>>
    /\ controller_stt_queue' = Tail(controller_stt_queue)
    /\ pc' = "speak"
    /\ UNCHANGED <<phase_1_turns, turn_count, victim_response, turn_log,
                   listen_frame>>

\* the head of the loop of execute_phase_1 and _robot_speak
ListenSpeak ==
    /\ pc = "speak"
    /\ IF turns_left(phase_1_turns, MaxPhase1Turns)
       THEN /\ phase_1_turns' = phase_1_turns + 1
            /\ turn_count' = turn_count + 1
            /\ pc' = "listen"
       ELSE /\ pc' = "listen_done"
            /\ UNCHANGED <<phase_1_turns, turn_count>>
    /\ turn_log' = NoTurnLog
    /\ UNCHANGED <<victim_response, controller_stt_queue, listen_frame>>

\* _get_victim_response: stt_queue.get(timeout=20) returns the oldest message
ListenGet ==
    /\ pc = "listen"
    /\ controller_stt_queue # <<>>
    /\ victim_response' = Head(controller_stt_queue).message
    /\ controller_stt_queue' = Tail(controller_stt_queue)
    /\ turn_log' = [turn_log EXCEPT !.listens = @ + 1]
    /\ pc' = "llm"
    /\ UNCHANGED <<phase_1_turns, turn_count, listen_frame>>

\* _get_victim_response: the get times out; a retry prompt between attempts,
\* no_victim_response after the last
ListenTimeout ==
    /\ pc = "listen"
    /\ controller_stt_queue = <<>>
    /\ turn_log' = [turn_log EXCEPT
                      !.listens = @ + 1,
                      !.retry_prompts =
                          IF retry_prompt_due(turn_log.listens) THEN @ + 1 ELSE @]
    /\ pc' = IF turn_log.listens + 1 < max_retries THEN "listen" ELSE "listen_done"
    /\ victim_response' = NoResponse
    /\ UNCHANGED <<phase_1_turns, turn_count, controller_stt_queue, listen_frame>>

\* the LLM calls of the turn: extraction, action decision, next question
ListenProcess ==
    /\ pc = "llm"
    /\ pc' = "speak"
    /\ UNCHANGED <<phase_1_turns, turn_count, victim_response, turn_log,
                   controller_stt_queue, listen_frame>>

ListenNext ==
    \/ on_stt_message \/ ListenWaitForVictim \/ ListenSpeak \/ ListenGet
    \/ ListenTimeout \/ ListenProcess

ListenSpec == ListenInit /\ [][ListenNext]_vars

(***************************************************************************)
(* Properties                                                              *)
(***************************************************************************)
\* the Phase 1 handler has run on the decision of this turn
AfterPhase1Handler ==
    /\ pc \in {"p1_question", "p1_return"}
    /\ call.agent \in {"action", "action_final"}
    /\ ~call.failed

\* the Phase 2 handler has run on the decision of this turn
AfterPhase2Handler ==
    /\ pc \in {"p2_question", "p2_return"}
    /\ call.agent = "action"
    /\ ~call.failed

FailMessages == {i \in DOMAIN report_queue : report_queue[i].info = "fail"}

C3_FailureTriggersFailover ==
    call.failed
    => /\ Cardinality(FailMessages) = 1
       /\ \A i \in FailMessages : report_queue[i].data = victim_response
       /\ event
       /\ pc = "returned"

\* C4: the controller hands over to the backup only when an agent returned
\* the failure value: a failure message or a set cancellation flag implies
\* that the last agent call failed and the workflow has returned; after an
\* extraction that returned a mapping (empty or not) or a safe-default
\* decision the phase goes on and nothing was handed over.
C4_FailoverOnlyOnFailure ==
    /\ (FailMessages # {} \/ event)
         => (call.failed /\ pc = "returned" /\ Cardinality(FailMessages) = 1)
    /\ (call.agent = "assessment" /\ ~call.failed)
         => (pc = "p1_decide" /\ FailMessages = {} /\ ~event)
    /\ call.agent = "comfort_assessment"
         => (pc = "p2_decide" /\ FailMessages = {} /\ ~event)
    /\ (call.agent = "action" /\ ~call.failed /\ ~action_reply.json)
         => /\ FailMessages = {} /\ ~event
            /\ pc \in {"p1_handle", "p1_question", "p1_final", "p2_handle", "p2_question"}

C4_Witness ==
    /\ call.agent = "assessment"
    /\ call.failed
    /\ event
    /\ Cardinality(FailMessages) = 1
    /\ report_queue[Len(report_queue)] = FailMessage(victim_response)
    /\ \E i \in DOMAIN report_queue : report_queue[i] = Snapshot(EmptyMap)
    /\ pc = "returned"

\* C5: an extraction agent returns the failure value whenever its LLM call
\* ended in an HTTP error, a timeout or a connection error.
C5_ExtractionFailureValue ==
    (call.agent \in {"assessment", "comfort_assessment"} /\ call.outcome # "ok")
    => updates.failed

DecisionFields ==
    {"primary_action", "alert_command_center", "urgency_level", "reasoning",
     "next_phase", "specialized_equipment_needed"}

\* the safe default of a decision field
FieldDefault(f) ==
    CASE f = "primary_action" -> "continue_conversation"
      [] f = "alert_command_center" -> FALSE
      [] f = "urgency_level" -> "routine"
      [] f = "reasoning" -> ""
      [] f = "next_phase" -> 0
      [] f = "specialized_equipment_needed" -> <<>>

\* C7 as stated: for every JSON object the LLM returns, each of the six
\* decision fields that is present is kept with its value and each absent
\* field gets its safe default.
C7_NormalizationEveryObject ==
    (pc = "agent_done" /\ call.outcome = "ok" /\ action_reply.json)
    => \A f \in DecisionFields :
         raw_decision.decision[f] =
            IF action_reply.obj[f].present THEN action_reply.obj[f].value
            ELSE FieldDefault(f)

\* C7 amended: for every JSON object that has a primary_action or an action
\* key, each of the six decision fields that is present is kept with its value
\* and each absent field gets its safe default; an object with neither key is
\* answered with the safe-default decision, whatever its other fields say.
C7_NormalizationKeyedObject ==
    (pc = "agent_done" /\ call.outcome = "ok" /\ action_reply.json)
    => IF action_reply.obj["primary_action"].present
          \/ action_reply.obj["action"].present
       THEN \A f \in DecisionFields :
              raw_decision.decision[f] =
                 IF action_reply.obj[f].present THEN action_reply.obj[f].value
                 ELSE FieldDefault(f)
       ELSE /\ ~raw_decision.failed
            /\ \A f \in DecisionFields \ {"reasoning"} :
                 raw_decision.decision[f] = FieldDefault(f)

C7_Witness ==
    /\ pc = "agent_done"
    /\ call.outcome = "ok"
    /\ action_reply.json
    /\ ~action_reply.obj["primary_action"].present
    /\ action_reply.obj["action"].present
    /\ action_reply.obj["alert_command_center"] = Present(TRUE)
    /\ action_reply.obj["urgency_level"] = Present("critical")
    /\ raw_decision.decision.primary_action = "continue_conversation"
    /\ raw_decision.decision.alert_command_center = TRUE
    /\ raw_decision.decision.urgency_level = "critical"

KnownActions ==
    {"continue_conversation", "transition_to_phase_2", "evacuate_immediately",
     "abort_and_alert", "complete"}

\* C9 as stated: for every primary_action outside the known set, with every
\* urgency level and alert flag, the Phase 1 handler and the Phase 2 handler
\* return should_exit false.
C9_UnknownActionNeverExits ==
    ((AfterPhase1Handler \/ AfterPhase2Handler)
       /\ raw_decision.decision.primary_action \notin KnownActions)
    => ~handler_result.should_exit

\* C9 amended: for every primary_action outside the known set the Phase 1
\* handler returns should_exit false for every urgency level and alert flag;
\* the Phase 2 handler returns should_exit false when the urgency is routine or
\* priority, and exits with emergency_detected when it is critical or emergency.
C9_UnknownActionDefault ==
    /\ (AfterPhase1Handler
          /\ raw_decision.decision.primary_action \notin KnownActions)
         => ~handler_result.should_exit
    /\ (AfterPhase2Handler
          /\ raw_decision.decision.primary_action \notin KnownActions)
         => IF raw_decision.decision.urgency_level \in {"critical", "emergency"}
            THEN /\ handler_result.should_exit
                 /\ handler_result.exit_reason = "emergency_detected"
            ELSE ~handler_result.should_exit /\ pc = "p2_question"

C9_Witness ==
    /\ AfterPhase2Handler
    /\ raw_decision.decision.primary_action = "wait_for_help"
    /\ raw_decision.decision.alert_command_center = TRUE
    /\ raw_decision.decision.urgency_level = "priority"
    /\ ~handler_result.should_exit
    /\ pc = "p2_question"

\* C10: in the Phase 1 record and in the Phase 2 record a field whose value
\* is not "unknown" never becomes "unknown" again.
C10_Monotonicity ==
    [][ /\ \A f \in AssessmentFields :
             assessment[f] # <<"unknown">> => assessment'[f] # <<"unknown">>
        /\ \A f \in SpecialNeedsFields :
             special_needs[f] # <<"unknown">> => special_needs'[f] # <<"unknown">>
      ]_vars

Priorities == {<<"Red">>, <<"Yellow">>, <<"Green">>, <<"Black">>}

\* a triage reply names a category when it contains one of the four words,
\* in any letter case
NamesCategory(reply) ==
    \E word \in {"red", "yellow", "green", "black"} : Contains(<<word>>, Lower(reply))

\* C17: for every assessment and every outcome of the LLM call,
\* assign_triage_priority returns one of Red, Yellow, Green, Black, and it
\* returns Yellow whenever the call failed or the reply names no category.
C17_TriageClosedSet ==
    pc = "triage_done"
    => /\ results.triage_priority \in Priorities
       /\ (triage.calls = 1 /\ (call.outcome # "ok" \/ ~NamesCategory(triage.reply)))
            => results.triage_priority = <<"Yellow">>

C17_Witness ==
    /\ pc = "triage_done"
    /\ triage.calls = 1
    /\ call.outcome = "ok"
    /\ triage.reply = <<"unsure">>
    /\ results.triage_priority = <<"Yellow">>

\* injuries, breathing, consciousness or immediate_danger holds a value that
\* is not missing, empty, blank or "unknown"
CriticalFieldKnown(rec) ==
    \E f \in {"injuries", "breathing", "consciousness", "immediate_danger"} :
        /\ f \in DOMAIN rec
        /\ \E i \in DOMAIN rec[f] : rec[f][i] # "sp"
        /\ Lower(Strip(rec[f])) # <<"unknown">>

\* C18: when injuries, breathing, consciousness and immediate_danger are all
\* "unknown", empty or missing, assign_triage_priority returns Yellow and makes
\* no LLM call; when at least one of the four is known it calls the LLM
\* exactly once.
C18_TriageShortCircuit ==
    pc = "triage_done"
    => IF CriticalFieldKnown(assessment)
       THEN triage.calls = 1 /\ call.agent = "triage"
       ELSE /\ triage.calls = 0
            /\ call = NoCall
            /\ results.triage_priority = <<"Yellow">>

C18_Witness ==
    /\ pc = "triage_done"
    /\ assessment = [f \in {"can_walk"} |-> <<"yes">>]
    /\ triage.calls = 0
    /\ results.triage_priority = <<"Yellow">>

\* C19: a workflow that started at Phase 1 with a fresh record and ended
\* with no field learned from the victim made no triage LLM call and carries
\* the priority Yellow.
C19_NothingLearnedYellow ==
    (pc = "returned" /\ results.returned = "completed" /\ results.entry_phase = 1
       /\ assessed_categories = {} /\ assessed_fields = {}
       /\ assessment = InitialAssessment /\ special_needs = InitialSpecialNeeds)
    => /\ triage.calls = 0
       /\ results.triage_priority = <<"Yellow">>

\* C20: every run of the workflow that ended without failover has performed
\* the final triage exactly once, after the last phase, whatever the exit
\* reason, and its result carries that priority; triage never runs before the
\* phases are over.
C20_TriageUnconditional ==
    /\ (pc = "returned" /\ results.returned # "llm_fail")
         => (triage.runs = 1 /\ results.triage_priority \in Priorities)
    /\ triage.runs > 0 => pc = "returned"

\* C11: in both records, merging an update and then merging the same
\* update again leaves every field's text and the assessed sets as they were
\* after the first merge.
C11_RepeatedUpdateIdempotent ==
    [][ pc' = "record_repeated"
        => /\ assessment' = assessment
           /\ assessed_categories' = assessed_categories
           /\ special_needs' = special_needs
           /\ assessed_fields' = assessed_fields ]_vars

C13_AssessedFieldsKnown ==
    \A f \in assessed_fields :
        special_needs[f] # <<"unknown">> /\ special_needs[f] # <<>>

\* C14: the update mapping an extraction agent returns contains only keys of
\* the agent's field set and no value that is empty, blank or "unknown" in any
\* letter case.
C14_ExtractionFiltering ==
    (call.agent \in {"assessment", "comfort_assessment"} /\ ~call.failed)
    => \A f \in DOMAIN updates.map :
         /\ f \in (IF call.agent = "assessment" THEN AssessmentFields
                   ELSE SpecialNeedsFields)
         /\ \E i \in DOMAIN updates.map[f] : updates.map[f][i] # "sp"
         /\ Lower(updates.map[f]) # <<"unknown">>

C16_InjuriesAccumulate ==
    [][ (pc' = "record_updated" /\ call'.agent = "assessment"
           /\ "injuries" \in DOMAIN updates'.map
           /\ assessment["injuries"] # <<"unknown">>
           /\ ~_is_duplicate_info(assessment["injuries"], updates'.map["injuries"]))
        => assessment'["injuries"] \in
              { assessment["injuries"] \o <<"semicolon", "sp">> \o updates'.map["injuries"],
                assessment["injuries"] \o <<"semicolon", "sp">>
                    \o Replace(updates'.map["injuries"], <<"yes", "sp", "dash", "sp">>, <<>>) }
      ]_vars

C22_NoVictimResponse ==
    [][/\ turn_log'.listens <= 3
       /\ turn_log'.retry_prompts <= 2
       /\ turn_log'.listens > 0 => turn_log'.retry_prompts < turn_log'.listens
       /\ (pc \in {"p1_turn", "p2_turn"} /\ turn_log'.listens > 0
              /\ victim_response' = <<>>) =>
             /\ turn_log'.listens = 3
             /\ phase_result'.exit_reason = "no_victim_response"
             /\ pc' = (IF pc = "p1_turn" THEN "p1_return" ELSE "p2_return")
             /\ call'.agent = "none"
       /\ (pc \in {"p1_turn", "p2_turn"} /\ turn_log'.listens > 0
              /\ victim_response' # <<>>) =>
             pc' = (IF pc = "p1_turn" THEN "p1_extract" ELSE "p2_extract")
       /\ (pc = "p1_return" /\ phase_result.exit_reason = "no_victim_response") =>
             (pc' = "p2_turn" /\ current_phase' = 2)
       /\ (pc = "p2_return" /\ phase_result.exit_reason = "no_victim_response") =>
             (pc' = "triage" /\ turn_count' = turn_count)]_vars

\* three attempts of a Phase 1 turn went by without a reply
C22_Witness ==
    /\ pc = "p1_return"
    /\ phase_result.exit_reason = "no_victim_response"
    /\ turn_log.listens = 3
    /\ turn_log.retry_prompts = 2
    /\ call.agent = "none"

\* C23: turn_count = phase_1_turns + phase_2_turns in every state, no counter
\* decreases, phase_1_turns and phase_2_turns stay within their caps, and a
\* phase whose loop finds its counter at the cap exits with max_turns_reached
C23_TurnCounters ==
    [][/\ turn_count' = phase_1_turns' + phase_2_turns'
       /\ phase_1_turns' >= phase_1_turns
       /\ phase_2_turns' >= phase_2_turns
       /\ turn_count' >= turn_count
       /\ phase_1_turns' <= MaxPhase1Turns
       /\ phase_2_turns' <= MaxPhase2Turns
       /\ (pc = "p1_turn" /\ phase_1_turns = MaxPhase1Turns) =>
             (pc' = "p1_return" /\ phase_result'.exit_reason = "max_turns_reached")
       /\ (pc = "p2_turn" /\ phase_2_turns = MaxPhase2Turns) =>
             (pc' = "p2_return" /\ phase_result'.exit_reason = "max_turns_reached")]_vars

\* both phases used up their turns
C23_Witness ==
    /\ pc = "p2_return"
    /\ phase_result.exit_reason = "max_turns_reached"
    /\ phase_1_turns = MaxPhase1Turns
    /\ phase_2_turns = MaxPhase2Turns
    /\ turn_count = MaxPhase1Turns + MaxPhase2Turns

\* C24: every decision appended to the audit trail with alert_command_center
\* true, the final Phase 1 evaluation included, has had its alert dispatched,
\* already before the handler applies the decision
C24_AlertDispatch ==
    turn_log.alerts = turn_log.alert_decisions

\* C30: in both phases, when the generation of the next utterance yields the
\* empty string the controller evaluates one final action decision and then
\* exits the phase
C30_FinalEvaluationBothPhases ==
    [][/\ (pc = "p1_question" /\ pc' \notin {"p1_turn", "returned"}) =>
             pc' = "p1_final"
       /\ (pc = "p2_question" /\ pc' \notin {"p2_turn", "returned"}) =>
             pc' = "p2_final"
       /\ pc \in {"p1_final", "p2_final"} =>
             /\ call'.agent = "action_final"
             /\ pc' \in {"p1_return", "p2_return", "returned"}]_vars

\* C25: in every run both tasks eventually stop; once the primary pipeline has
\* ended without sending a failure message (the cancellation flag is unset),
\* the backup leaves its wait on the hand-off queue and terminates
C25_BothTasksStop ==
    /\ <>(pc \in {"robot_returned", "robot_raised"}
            /\ backup_pc \in {"done", "cancelled"})
    /\ (pc \in {"robot_returned", "robot_raised"} /\ ~event)
          ~> (backup_pc \in {"done", "cancelled"})

\* C26: until the backup dequeues a failure message it says nothing, keeps no
\* victim message and only mirrors snapshots; it activates on a failure message
\* only, and once active it never takes a message from the hand-off queue, so
\* its record changes through the answers of the interview only
C26_StandbyRole ==
    [][/\ backup_pc' = "standby" =>
             /\ spoken' = 0 /\ asked' = <<>> /\ reports' = <<>>
             /\ stt_queue' = <<>>
       /\ (backup_pc = "standby" /\ victim_situation' # victim_situation) =>
             /\ report_queue # <<>>
             /\ \/ /\ Head(report_queue).info = "snapshot"
                   /\ \A f \in DOMAIN victim_situation' :
                        victim_situation'[f] =
                           IF f \in DOMAIN Head(report_queue).data
                           THEN Head(report_queue).data[f]
                           ELSE victim_situation[f]
                \/ Head(report_queue).info = "fail"
       /\ (backup_pc = "standby" /\ backup_pc' \notin {"standby", "cancelled"}) =>
             /\ report_queue # <<>>
             /\ Head(report_queue).info \in {"fail", "fail_at_start"}
       /\ backup_pc # "standby" =>
             /\ Len(report_queue') >= Len(report_queue)
             /\ victim_situation' # victim_situation => backup_pc = "listen"]_vars

\* the active backup listens for the answer to its first question, after it
\* mirrored a snapshot and a victim message was dropped in standby
C26_Witness ==
    /\ backup_pc = "listen"
    /\ stt_discarded > 0
    /\ handed_off # {}
    /\ spoken >= 1

\* C27: when the failure message is in the queue, the record the backup holds
\* at its activation has, for every Phase 1 field the primary's cumulative
\* assessment knows, the same value
C27_WarmStandby ==
    (report_queue # <<>> /\ report_queue[Len(report_queue)].info = "fail") =>
        \A f \in AssessmentFields :
            assessment[f] # <<"unknown">> =>
                on_standby(InitialVictimSituation, report_queue)[f] = assessment[f]

\* C28: after the activation with a handed-off record the backup visits no
\* node of a field that record held
C28_ResumeSkipsKnownFields ==
    \A i \in DOMAIN asked :
        \A f \in handed_off : asked[i] \notin question_to_field(f)

\* C29: every visited node is followed by one status publication before the
\* next question: a question is asked only when all earlier nodes are
\* published, and a publication carries every non-null field of the record
C29_PublishAfterEveryNode ==
    [][/\ asked' # asked => Len(reports) = Len(asked)
       /\ Len(asked') - Len(reports') \in {0, 1}
       /\ backup_pc' \in {"select", "finished", "done"} => Len(reports') = Len(asked')
       /\ reports' # reports =>
             /\ Len(reports') = Len(reports) + 1
             /\ Len(reports') = Len(asked')
             /\ LET data == reports'[Len(reports')]
                IN  /\ DOMAIN data = {f \in DOMAIN victim_situation' :
                                         victim_situation'[f] # <<"None">>}
                    /\ \A f \in DOMAIN data : data[f] = victim_situation'[f]]_vars

\* two nodes were answered and published, the second report holding a handed-off
\* field and the answers
C29_Witness ==
    /\ backup_pc = "select"
    /\ Len(reports) = 2
    /\ Len(asked) = 2
    /\ "breathing" \in DOMAIN reports[2]
    /\ "injuries" \in DOMAIN reports[2]

\* C35: the triage section of the report generated at the end of the workflow
\* shows the priority the final triage of the run returned
C35_ReportStatesTriage ==
    results.returned = "completed" =>
        /\ results.rescue_report = results.triage_priority
        /\ results.rescue_report # <<"Not", "sp", "assessed">>

\* C36: whenever Phase 1 exits with reason transition_to_phase_2, the mobility
\* of the victim is known (can_walk or stuck_trapped is not "unknown") and at
\* least 3 Phase 1 turns were run
C36_NoPrematureTransition ==
    (pc = "p1_return" /\ phase_result.exit_reason = "transition_to_phase_2") =>
        /\ \/ assessment["can_walk"] # <<"unknown">>
           \/ assessment["stuck_trapped"] # <<"unknown">>
        /\ phase_1_turns >= 3

\* C31 (as the code has it): after a negative answer at the consciousness
\* node (node 0) the next node visited is the breathing node (node 2); the
\* node skipped is the injuries node (node 1)
C31_NegativeAtZeroGoesToBreathing ==
    [][(asked' # asked /\ asked # <<>> /\ asked[Len(asked)] = 0
          /\ last_answer = "negative")
       => asked' = Append(asked, 2)]_vars

\* C31 as stated: after a negative answer at node 0 the breathing node is not
\* visited, the next node lies after it
C31_NegativeAtZeroSkipsBreathing ==
    [][(asked' # asked /\ asked # <<>> /\ asked[Len(asked)] = 0
          /\ last_answer = "negative")
       => asked'[Len(asked')] > 2]_vars

\* nothing was handed off, node 0 was answered "no" and node 2 is asked
C31_Witness ==
    /\ asked = <<0, 2>>
    /\ occupied_nodes = {}
    /\ last_answer = "negative"
    /\ backup_pc = "listen"

\* C32: once the victim confirmed being stuck (positive answer at node 3,
\* recorded as "Possibly stuck"), the record has can_walk = "Cannot walk", the
\* mobility node (node 4) is not visited after node 3, the guide leaf (node 8)
\* is not visited, and an interview that has ended ended at leaf 7
C32_StuckRedirect ==
    victim_situation["stuck_trapped"] = <<"Possibly", "sp", "stuck">> =>
        /\ victim_situation["can_walk"] = <<"Cannot", "sp", "walk">>
        /\ \A i, j \in DOMAIN asked : (asked[i] = 3 /\ i < j) => asked[j] # 4
        /\ \A i \in DOMAIN asked : asked[i] # 8
        /\ backup_pc \in {"finished", "done"} => asked[Len(asked)] = 7

\* the victim confirmed being stuck and the interview ended at leaf 7 after the
\* questions 5 and 6
C32_Witness ==
    /\ victim_situation["stuck_trapped"] = <<"Possibly", "sp", "stuck">>
    /\ backup_pc = "done"
    /\ Len(asked) >= 4
    /\ asked[Len(asked)] = 7
    /\ asked[Len(asked) - 1] = 6
    /\ asked[Len(asked) - 2] = 5
    /\ asked[Len(asked) - 3] = 3

\* C33: the interview ends at the guide leaf (node 8) exactly when the final
\* record of the backup says the victim can walk, whether the answer was given
\* at the mobility node or handed off by the primary
C33_LeafMatchesMobility ==
    backup_pc \in {"finished", "done"} =>
        (asked[Len(asked)] = 8
           <=> victim_situation["can_walk"] \in {<<"Can", "sp", "walk">>, <<"yes">>})

\* C34: a backup question is abandoned after a fixed number of listen
\* attempts: a backup that listens for an answer eventually ends its interview
\* at a leaf, also when the victim says nothing more
C34_BoundedListening ==
    (backup_pc = "listen") ~> (backup_pc \in {"finished", "done"})

\* C39: the answer given at a node 1..6 is stored in the field the node table
\* assigns to the node; of immediate_danger and people_in_surroundings only the
\* one the table assigns is written
C39_AnswerStoredUnderAskedField ==
    [][(reports' # reports /\ backup_pc = "listen" /\ node \in 1..6) =>
          /\ \E f \in {"injuries", "breathing", "stuck_trapped", "can_walk",
                       "immediate_danger", "people_in_surroundings"} :
                /\ node \in question_to_field(f)
                /\ victim_situation'[f] # <<"None">>
          /\ \A f \in {"immediate_danger", "people_in_surroundings"} :
                node \notin question_to_field(f)
                   => victim_situation'[f] = victim_situation[f]]_vars

\* C40: the nodes the backup visits are strictly increasing and lie in 0..8,
\* a leaf (7 or 8) is visited at most once and last, the interview has ended
\* exactly when a leaf was visited, and at most 8 nodes are visited
C40_TreeProgress ==
    /\ \A i, j \in DOMAIN asked : i < j => asked[i] < asked[j]
    /\ \A i \in DOMAIN asked : asked[i] \in 0..8
    /\ \A i \in DOMAIN asked : asked[i] \in {7, 8} => i = Len(asked)
    /\ backup_pc \in {"finished", "done"}
          <=> (asked # <<>> /\ asked[Len(asked)] \in {7, 8})
    /\ Len(asked) <= 8

\* with a handed-off record the interview ran from node 0 to the guide leaf
C40_Witness ==
    /\ backup_pc = "done"
    /\ handed_off # {}
    /\ asked[1] = 0
    /\ asked[Len(asked)] = 8
    /\ Len(asked) >= 5

\* C37: once the primary has enqueued a failure message (the cancellation flag
\* is set with it) it speaks no further turn, sends no alert and enqueues
\* nothing; the backup speaks only after that, when the primary has returned;
\* the queue never holds more than one failure message
C37_OneSpeaker ==
    [][/\ event => /\ turn_count' = turn_count
                   /\ phase_1_turns' = phase_1_turns
                   /\ turn_log' = turn_log
                   /\ Len(report_queue') <= Len(report_queue)
                   /\ pc' = pc
       /\ spoken' # spoken => (event /\ pc = "robot_returned")
       /\ Cardinality({i \in DOMAIN report_queue' :
                          report_queue'[i].info \in {"fail", "fail_at_start"}}) <= 1]_vars

\* the primary spoke two turns and alerted the command center, then failed,
\* and the backup has asked its second question
C37_Witness ==
    /\ event
    /\ pc = "robot_returned"
    /\ turn_count = 2
    /\ turn_log.alerts = 1
    /\ spoken >= 2
    /\ Len(asked) = 2

\* C38: the reply the primary consumes in turn k arrived after the robot spoke
\* its turn-k utterance
C38_ReplyMatchesQuestion ==
    [][(pc = "listen" /\ pc' = "llm") =>
          Head(controller_stt_queue).heard_after = turn_count]_vars

====
